---- MODULE Spec2Model ----
(***************************************************************************)
(* The streaming byte reader of byteutils (readableStream) and the helpers *)
(* it is built from (LockQueue, SimpleEventEmitter, joinUint8Arrays).      *)
(*                                                                         *)
(* JavaScript runs the reader on one thread: a synchronous block of code   *)
(* is one atomic step, an `await` ends the block, and the continuation is  *)
(* a job on the FIFO microtask queue.  Source events ('data', 'close')     *)
(* and calls by the consumer happen between such blocks.                   *)
(*                                                                         *)
(* The k-th byte the source delivers has the value k, so that a byte       *)
(* returned by a read tells which byte of the stream it is.                *)
(***************************************************************************)
EXTENDS Integers, Sequences, FiniteSets, TLC

\* ---- bounds of the model ----
MaxOps == 2        \* read operations issued by the consumer
MaxChunks == 2     \* chunks delivered by the source
MaxChunkLen == 2   \* bytes per chunk
MaxRead == 2       \* largest n of readUint8Array(n)
MaxListeners == 1  \* drain listeners registered

\* the value of chunk[i] for an index outside the chunk (JavaScript undefined)
Undefined == 0 - 1

VARIABLES
  chunkQueue,   \* #chunkQueue: the chunks not yet evicted, oldest first
  chunkIdx,     \* #chunkIdx: cursor into the head chunk
  drained,      \* drained
  destroyed,    \* destroyed
  lock,         \* #lock: the LockQueue, [queue, locked, closed]
  events,       \* events: the SimpleEventEmitter registry, per event name
  ops,          \* the read calls issued so far, in call order
  microtasks,   \* the microtask queue: <<op, further hops>>
  enqueued,     \* history: every chunk delivered by the source, in order
  grants,       \* history: the ops in the order their acquire was granted
  calls,        \* history: invocations of each drain listener
  \* the fields that only the earlier variant of readableStream has
  locked,              \* #locked
  lockQueue,           \* #lockQueue: the ops waiting for the lock
  nuked,               \* nukeReads() has replaced push and shift of #lockQueue
  onDataListeners,     \* #onDataListeners: the waits for the next chunk
  onDrainListeners,    \* #onDrainListeners
  onceDrainListeners,  \* #onceDrainListeners
  readableLength,      \* stream.readableLength: bytes buffered in the source
  \* chunkingWritableStream
  buffer,       \* #buffer: the accumulation buffer
  used,         \* #used: bytes of #buffer in use
  chunkSize,    \* #chunkSize
  sink,         \* history: the chunks handed to stream.write, in order
  written,      \* history: number of bytes passed to the write calls
  writer,       \* the write call in progress and where it is suspended
  \* writableBufferFixedSize
  fixed,        \* #buffer, #used, and the last call with its outcome
  \* readableBuffer
  readable,     \* #buffer, #index, and the last call with its outcome
  \* the endian aliases of a reader and of a writer
  endian,       \* per instance: #isLe and the primitive each alias holds
  \* the integer encodings
  twos,         \* a value written as two's complement and read back
  \* two streaming readers fed the same chunks
  twin,         \* one reads forwards, the other backwards; the chunk storage
  decode,       \* a reader given one chunk, decoding a signed integer from it
  transformer,  \* a ChunkTransformerEmitter and the chunk events it has emitted
  overlap,      \* a chunkingWritableStream whose calls are not awaited
  growable,     \* a writableBuffer that grows by chunks
  floats,       \* a float or double written, followed by another field, and read back
  shared,       \* two readableBuffers over the same Uint8Array
  emitter       \* a SimpleEventEmitter, its listeners and the calls it has made to them

\* the state of chunkingWritableStream
chunkVars == <<buffer, used, chunkSize, sink, written, writer>>

\* the state that the streaming reader and LockQueue never touch
otherVars == <<chunkVars, fixed, readable, endian, twos, twin, decode, transformer, overlap, growable, floats, shared, emitter>>

readerVars == <<chunkQueue, chunkIdx, drained, destroyed, lock, events, ops,
          microtasks, enqueued, grants, calls, locked, lockQueue, nuked,
          onDataListeners, onDrainListeners, onceDrainListeners,
          readableLength>>

vars == <<readerVars, otherVars>>

\* ---- the state as one record, so that a handler is a chain of updates ----
St ==
  [chunkQueue |-> chunkQueue, chunkIdx |-> chunkIdx, drained |-> drained,
   destroyed |-> destroyed, lock |-> lock, events |-> events, ops |-> ops,
   microtasks |-> microtasks, enqueued |-> enqueued, grants |-> grants,
   calls |-> calls, locked |-> locked, lockQueue |-> lockQueue,
   nuked |-> nuked, onDataListeners |-> onDataListeners,
   onDrainListeners |-> onDrainListeners,
   onceDrainListeners |-> onceDrainListeners,
   readableLength |-> readableLength]

Become(S) ==
  /\ chunkQueue' = S.chunkQueue
  /\ chunkIdx' = S.chunkIdx
  /\ drained' = S.drained
  /\ destroyed' = S.destroyed
  /\ lock' = S.lock
  /\ events' = S.events
  /\ ops' = S.ops
  /\ microtasks' = S.microtasks
  /\ enqueued' = S.enqueued
  /\ grants' = S.grants
  /\ calls' = S.calls
  /\ locked' = S.locked
  /\ lockQueue' = S.lockQueue
  /\ nuked' = S.nuked
  /\ onDataListeners' = S.onDataListeners
  /\ onDrainListeners' = S.onDrainListeners
  /\ onceDrainListeners' = S.onceDrainListeners
  /\ readableLength' = S.readableLength
  /\ UNCHANGED otherVars

\* the handler is evaluated once, and the state becomes its result
Commit(S) == \E T \in {S} : Become(T)

\* ---- sequences ----
RECURSIVE Sum(_)
Sum(s) == IF s = <<>> THEN 0 ELSE Head(s) + Sum(Tail(s))

RECURSIVE Flatten(_)
Flatten(ss) == IF ss = <<>> THEN <<>> ELSE Head(ss) \o Flatten(Tail(ss))

Min(a, b) == IF a < b THEN a ELSE b
Max(a, b) == IF a > b THEN a ELSE b

\* Uint8Array.prototype.subarray(begin, end): both ends clamped to the array
subarray(chunk, begin, end) ==
  LET b == Min(Max(begin, 0), Len(chunk))
      e == Min(Max(end, 0), Len(chunk))
  IN  IF b >= e THEN <<>> ELSE SubSeq(chunk, b + 1, e)

\* joinUint8Arrays(arrays, totalLength): a fresh zero-filled array of
\* totalLength bytes into which the arrays are copied one after the other;
\* TypedArray.set throws RangeError when an array does not fit
joinUint8Arrays(bytes, totalLength) ==
  IF Len(bytes) > totalLength
    THEN [error |-> "RangeError", value |-> <<>>]
    ELSE [error |-> "none",
          value |-> bytes \o [i \in 1..(totalLength - Len(bytes)) |-> 0]]

\* ---- LockQueue ----
LockQueueInit == [queue |-> <<>>, locked |-> FALSE, closed |-> FALSE]

\* acquire() as it would be if it took the lock and queued a waiter at the
\* front of the queue instead of the back
acquire_unshift(l, pid) ==
  IF l.closed THEN [lock |-> l, outcome |-> "rejected"]
  ELSE IF ~l.locked
    THEN [lock |-> [l EXCEPT !.locked = TRUE], outcome |-> "resolved"]
  ELSE [lock |-> [l EXCEPT !.queue = <<pid>> \o @], outcome |-> "queued"]

\* acquire() as it would be without its test of #closed
acquire_ignoreClosed(l, pid) ==
  IF ~l.locked THEN [lock |-> l, outcome |-> "resolved"]
  ELSE [lock |-> [l EXCEPT !.queue = Append(@, pid)], outcome |-> "queued"]

\* acquire(): the outcome for the caller and the lock afterwards
acquire(l, pid) ==
  IF l.closed THEN [lock |-> l, outcome |-> "rejected"]
  ELSE IF ~l.locked THEN [lock |-> l, outcome |-> "resolved"]
  ELSE [lock |-> [l EXCEPT !.queue = Append(@, pid)], outcome |-> "queued"]

\* release(): the lock afterwards and the waiter whose promise is resolved
release(l) ==
  IF Len(l.queue) > 0
    THEN [lock |-> [l EXCEPT !.locked = FALSE, !.queue = Tail(@)],
          woken |-> <<Head(l.queue)>>]
    ELSE [lock |-> [l EXCEPT !.locked = FALSE], woken |-> <<>>]

\* ---- SimpleEventEmitter ----
EventsInit == [data |-> <<>>, close |-> <<>>, drain |-> <<>>]

IsOn(listener) == listener.type = "on"

once(S, name, callback) ==
  [S EXCEPT !.events[name] = Append(@, [type |-> "once", callback |-> callback])]

on(S, name, callback) ==
  [S EXCEPT !.events[name] = Append(@, [type |-> "on", callback |-> callback])]

\* a callback is the resolve or reject of the promise of one wait of one op,
\* or a drain listener of the consumer; settling a settled promise does nothing
Unsettled(S, cb) ==
  /\ S.ops[cb.pid].pc = "waiting"
  /\ S.ops[cb.pid].wait = cb.wait

resolveWait(S, cb) ==
  IF Unsettled(S, cb)
    THEN [S EXCEPT !.ops[cb.pid].pc = "chunk",
                   !.microtasks = Append(@, <<cb.pid, 1>>)]
    ELSE S

rejectWait(S, cb, err) ==
  IF Unsettled(S, cb)
    THEN [S EXCEPT !.ops[cb.pid].pc = "done",
                   !.ops[cb.pid].status = "rejected",
                   !.ops[cb.pid].error = err,
                   !.ops[cb.pid].by = "close"]
    ELSE S

invoke(S, cb) ==
  CASE cb.kind = "resolve" -> resolveWait(S, cb)
    [] cb.kind = "reject" -> rejectWait(S, cb, "StreamEnded")
    [] cb.kind = "drain" -> [S EXCEPT !.calls[cb.id] = @ + 1]

RECURSIVE invokeAll(_, _)
invokeAll(S, snapshot) ==
  IF snapshot = <<>> THEN S
  ELSE invokeAll(invoke(S, Head(snapshot).callback), Tail(snapshot))

\* emit(name): snapshot the listeners, purge the once listeners, call the snapshot
emit(S, name) ==
  LET listenerSnapshot == S.events[name]
      purged == [S EXCEPT !.events[name] = SelectSeq(@, IsOn)]
  IN  invokeAll(purged, listenerSnapshot)

\* ---- readableStream (the LockQueue / SimpleEventEmitter variant) ----

NewOp(kind, bytes, S) ==
  [kind |-> kind, bytes |-> bytes, pc |-> "acquire", bytesLeft |-> bytes,
   chunks |-> <<>>, wait |-> 0, status |-> "pending", result |-> <<>>,
   error |-> "none", by |-> "none",
   \* history: the call was made when no earlier call was still pending
   alone |-> \A p \in 1..Len(S.ops) : S.ops[p].status # "pending",
   \* history: the source had closed when the call was made
   afterClose |-> S.destroyed]

throw(S, pid, err) ==
  [S EXCEPT !.ops[pid].pc = "done", !.ops[pid].status = "rejected",
            !.ops[pid].error = err, !.ops[pid].by = "throw"]

return(S, pid, value) ==
  [S EXCEPT !.ops[pid].pc = "done", !.ops[pid].status = "resolved",
            !.ops[pid].result = value]

\* this.#lock.release(): a waiter handed the lock continues one job later
lockRelease(S) ==
  LET r == release(S.lock)
  IN  [S EXCEPT !.lock = r.lock,
                !.microtasks = @ \o [i \in 1..Len(r.woken) |-> <<r.woken[i], 0>>]]

\* `await this.#waitChunk()`: the synchronous part of #waitChunk, up to the
\* await of its promise by the caller
waitChunk(S, pid) ==
  LET evicted ==
        IF Len(S.chunkQueue) > 0 /\ S.chunkIdx >= Len(S.chunkQueue[1])
          THEN [S EXCEPT !.chunkIdx = 0, !.chunkQueue = Tail(@)]
          ELSE S
      w == S.ops[pid].wait + 1
  IN  IF Len(evicted.chunkQueue) = 0
        THEN IF evicted.destroyed
               THEN throw(evicted, pid, "StreamEnded")
               ELSE once(once([evicted EXCEPT !.ops[pid].pc = "waiting",
                                              !.ops[pid].wait = w],
                              "data", [kind |-> "resolve", pid |-> pid, wait |-> w]),
                         "close", [kind |-> "reject", pid |-> pid, wait |-> w])
        ELSE [evicted EXCEPT !.ops[pid].pc = "chunk",
                             !.microtasks = Append(@, <<pid, 0>>)]

\* shift(), from the return of #waitChunk to the end
shiftBody(S, pid) ==
  IF Len(S.chunkQueue) = 0
    THEN throw(S, pid, "TypeError")
    ELSE LET chunk == S.chunkQueue[1]
             byte == IF S.chunkIdx < Len(chunk)
                       THEN chunk[S.chunkIdx + 1] ELSE Undefined
         IN  return(lockRelease([S EXCEPT !.chunkIdx = @ + 1]), pid, <<byte>>)

\* readUint8Array(bytes): the loop test, and what follows the loop
readLoop(S, pid) ==
  IF S.ops[pid].bytesLeft # 0
    THEN waitChunk(S, pid)
    ELSE LET joined == joinUint8Arrays(S.ops[pid].chunks, S.ops[pid].bytes)
             released == lockRelease(S)
         IN  IF joined.error # "none"
               THEN throw(released, pid, joined.error)
               ELSE return(released, pid, joined.value)

\* readUint8Array(bytes): one pass of the loop body after #waitChunk returned,
\* then on to the next test of the loop
readBody(S, pid) ==
  IF Len(S.chunkQueue) = 0
    THEN throw(S, pid, "TypeError")
    ELSE LET chunk == S.chunkQueue[1]
             idx == S.chunkIdx
             bytesLeft == S.ops[pid].bytesLeft
         IN  IF Len(chunk) - idx > bytesLeft
               THEN readLoop([S EXCEPT
                      !.ops[pid].chunks = @ \o subarray(chunk, idx, idx + bytesLeft),
                      !.chunkIdx = idx + bytesLeft,
                      !.ops[pid].bytesLeft = 0], pid)
               ELSE readLoop([S EXCEPT
                      !.ops[pid].chunks = @ \o subarray(chunk, idx, Len(chunk)),
                      !.ops[pid].bytesLeft = bytesLeft - (Len(chunk) - idx),
                      !.chunkQueue = Tail(@)], pid)

\* the continuation of an op, run as one microtask
resume(S, pid) ==
  LET op == S.ops[pid]
  IN  CASE op.pc \in {"acquire", "queued"} ->
             LET G == [S EXCEPT !.grants = Append(@, pid)]
             IN  IF op.kind = "shift" THEN waitChunk(G, pid) ELSE readLoop(G, pid)
        [] op.pc = "chunk" ->
             IF op.kind = "shift" THEN shiftBody(S, pid) ELSE readBody(S, pid)
        [] OTHER -> S

\* a call of shift() or readUint8Array(bytes): runs up to `await this.#lock.acquire()`
call(S, kind, bytes) ==
  LET pid == Len(S.ops) + 1
      a == acquire(S.lock, pid)
      C == [S EXCEPT !.ops = Append(@, NewOp(kind, bytes, S)), !.lock = a.lock]
  IN  CASE a.outcome = "resolved" -> [C EXCEPT !.microtasks = Append(@, <<pid, 0>>)]
        [] a.outcome = "queued" -> [C EXCEPT !.ops[pid].pc = "queued"]
        [] a.outcome = "rejected" -> throw(C, pid, "acquireError")

\* the 'data' listener of the constructor
onData(S, chunk) ==
  emit([S EXCEPT !.chunkQueue = Append(@, chunk), !.drained = FALSE,
                 !.enqueued = Append(@, chunk)], "data")

\* the 'close' listener as it would be without the emit
onClose_noEmit(S) == [S EXCEPT !.destroyed = TRUE]

\* the 'close' listener of the constructor
onClose(S) == emit([S EXCEPT !.destroyed = TRUE], "close")

\* onDrain(listener) / onceDrain(listener)
onDrain(S) ==
  on([S EXCEPT !.calls = Append(@, 0)], "drain",
     [kind |-> "drain", id |-> Len(S.calls) + 1])

onceDrain(S) ==
  once([S EXCEPT !.calls = Append(@, 0)], "drain",
       [kind |-> "drain", id |-> Len(S.calls) + 1])

\* ---- the actions ----
Init ==
  /\ chunkQueue = <<>>
  /\ chunkIdx = 0
  /\ drained = TRUE
  /\ destroyed = FALSE
  /\ lock = LockQueueInit
  /\ events = EventsInit
  /\ ops = <<>>
  /\ microtasks = <<>>
  /\ enqueued = <<>>
  /\ grants = <<>>
  /\ calls = <<>>
  /\ locked = FALSE
  /\ lockQueue = <<>>
  /\ nuked = FALSE
  /\ onDataListeners = <<>>
  /\ onDrainListeners = <<>>
  /\ onceDrainListeners = <<>>
  /\ readableLength = 0
  /\ buffer = <<>>
  /\ used = 0
  /\ chunkSize = 0
  /\ sink = <<>>
  /\ written = 0
  /\ writer = [kind |-> "none", pc |-> "new", value |-> <<>>, index |-> 0,
               bytesLeft |-> 0, ncalls |-> 0]
  /\ fixed = [buffer |-> <<>>, used |-> 0, made |-> FALSE, ncalls |-> 0,
              next |-> 1,
              call |-> [kind |-> "none", value |-> <<>>, threw |-> FALSE]]
  /\ readable = [buffer |-> <<>>, index |-> 0, made |-> FALSE, ncalls |-> 0,
                 call |-> [kind |-> "none", bytes |-> 0, threw |-> FALSE,
                           result |-> <<>>]]
  /\ endian = [made |-> FALSE, reader |-> <<>>, writer |-> <<>>,
               call |-> [on |-> "none", alias |-> "none", bytes |-> 0,
                         result |-> <<>>]]
  /\ twos = [pc |-> "idle", value |-> 0, bytes |-> 0, isLe |-> FALSE,
             stored |-> <<>>, result |-> 0]
  /\ twin = [fwd |-> St, bwd |-> St, outer |-> <<>>, heap |-> <<>>,
             scribbled |-> {}]
  /\ decode = [stream |-> St, pc |-> "new", isLe |-> FALSE, chunk |-> <<>>,
               bytes |-> 0, read |-> <<>>, result |-> 0]
  /\ transformer = [buffer |-> <<>>, used |-> 0, made |-> FALSE, emitted |-> <<>>,
                    written |-> 0, ncalls |-> 0]
  /\ overlap = [buffer |-> <<>>, used |-> 0, chunkSize |-> 0, sink |-> <<>>,
                written |-> 0, writers |-> <<>>, pending |-> <<>>, made |-> FALSE]
  /\ growable = [chunkSize |-> 0, buffers |-> <<>>, used |-> 0, made |-> FALSE,
                 written |-> 0, ncalls |-> 0]
  /\ floats = [pc |-> "new", isBigEndian |-> FALSE, isLe |-> FALSE, kind |-> "none",
               view |-> <<>>, out |-> <<>>, index |-> 0, read |-> <<>>,
               field |-> <<>>]
  /\ shared = [storage |-> <<>>, readers |-> <<>>, made |-> FALSE, ncalls |-> 0,
               threw |-> FALSE]
  /\ emitter = [events |-> EventsInit, emits |-> 0, log |-> <<>>, snapshots |-> <<>>,
                listeners |-> <<>>, reemitted |-> {}, registered |-> 0]

Shift ==
  /\ Len(ops) < MaxOps
  /\ Commit(call(St, "shift", 1))

ReadUint8Array ==
  /\ Len(ops) < MaxOps
  /\ \E bytes \in 1..MaxRead : Commit(call(St, "read", bytes))

\* the source delivers the next chunk; its bytes continue the numbering
Data ==
  /\ ~destroyed
  /\ Len(enqueued) < MaxChunks
  /\ \E len \in 1..MaxChunkLen :
       Commit(onData(St, [i \in 1..len |-> Len(Flatten(enqueued)) + i]))

Close ==
  /\ ~destroyed
  /\ Commit(onClose(St))

OnDrain ==
  /\ Len(calls) < MaxListeners
  /\ Commit(onDrain(St))

OnceDrain ==
  /\ Len(calls) < MaxListeners
  /\ Commit(onceDrain(St))

\* the next job of the microtask queue
RunMicrotask ==
  /\ microtasks # <<>>
  /\ LET job == Head(microtasks)
         S == [St EXCEPT !.microtasks = Tail(@)]
     IN  IF job[2] > 0
           THEN Commit([S EXCEPT !.microtasks = Append(@, <<job[1], job[2] - 1>>)])
           ELSE Commit(resume(S, job[1]))

\* the reader, its source and a consumer that reads
Next ==
  \/ Shift
  \/ ReadUint8Array
  \/ Data
  \/ Close
  \/ RunMicrotask

Spec == Init /\ [][Next]_vars

\* the same with a consumer that also registers drain listeners
DrainNext ==
  \/ Next
  \/ OnDrain
  \/ OnceDrain

DrainSpec == Init /\ [][DrainNext]_vars

\* ---- what the consumer observes ----

\* the bytes delivered by the source, in arrival order
Stream == Flatten(enqueued)

Pids == 1..Len(ops)

\* the number of bytes asked for by the calls made before call p
RECURSIVE Offset(_)
Offset(p) == IF p = 1 THEN 0 ELSE Offset(p - 1) + ops[p - 1].bytes

TotalRequested == IF ops = <<>> THEN 0 ELSE Offset(Len(ops)) + ops[Len(ops)].bytes

\* the bytes of the stream that belong to call p
Slice(p) == SubSeq(Stream, Offset(p) + 1, Offset(p) + ops[p].bytes)

\* the results of the calls that have returned, in call order
RECURSIVE Returned(_)
Returned(p) ==
  IF p = 0 THEN <<>>
  ELSE Returned(p - 1) \o (IF ops[p].status = "resolved" THEN ops[p].result ELSE <<>>)

AllSettled == \A p \in Pids : ops[p].status # "pending"
AllReads == \A p \in Pids : ops[p].kind = "read"
AllShifts == \A p \in Pids : ops[p].kind = "shift"
Sequential == \A p \in Pids : ops[p].alone

\* an op holds the read serializer from the grant of its acquire to its release
Holding(p) == ops[p].pc \in {"waiting", "chunk"}

\* ---- C1 ----
\* C1: sequentially awaited readUint8Array calls whose sizes sum to the number
\* of bytes enqueued return, concatenated, the enqueued chunks concatenated.
C1_SequentialReadsReturnTheStream ==
  (ops # <<>> /\ AllReads /\ Sequential /\ AllSettled
     /\ TotalRequested = Len(Stream))
    => Returned(Len(ops)) = Stream

\* ---- C2 ----
\* C2: of two reads A then B issued without waiting for A, with at least
\* n1+n2 bytes delivered, A resolves with the first n1 bytes of the stream
\* and B with the following n2 bytes.
C2_ConcurrentReadsKeepCallOrder ==
  (Len(ops) = 2 /\ AllReads /\ ~ops[2].alone /\ AllSettled
     /\ TotalRequested <= Len(Stream))
    => \A p \in Pids : ops[p].status = "resolved" /\ ops[p].result = Slice(p)

\* ---- C3 ----
\* C3: at most one read operation holds the read serializer at any time.
C3_AtMostOneHolder == Cardinality({p \in Pids : Holding(p)}) <= 1

\* ---- C5 ----
\* C5: the k-th shift() issued resolves with the k-th byte of the stream, and
\* with nothing else; it is rejected only when the source closed with fewer
\* than k bytes delivered.
C5_KthShiftYieldsKthByte ==
  AllShifts =>
    \A p \in Pids :
      /\ ops[p].status = "resolved" =>
           p <= Len(Stream) /\ ops[p].result = <<Stream[p]>>
      /\ ops[p].status = "rejected" =>
           ops[p].error = "StreamEnded" /\ Len(Stream) < p

\* ---- C7 ----
\* C7: a read issued after the source closed (all earlier reads having
\* returned) resolves with the next n bytes when n bytes are still unread,
\* and rejects with StreamEnded when fewer are.
C7_ReadsAfterClose ==
  \A p \in Pids :
    (/\ ops[p].afterClose
     /\ ops[p].alone
     /\ ops[p].status # "pending"
     /\ \A q \in 1..(p - 1) : ops[q].status = "resolved")
      => IF Offset(p) + ops[p].bytes <= Len(Stream)
           THEN ops[p].status = "resolved" /\ ops[p].result = Slice(p)
           ELSE ops[p].status = "rejected" /\ ops[p].error = "StreamEnded"

\* ---- C6 ----
\* the reader with a consumer and a source small enough to decide liveness;
\* the microtask queue is always run
MaxFairOps == 1
MaxFairChunks == 1

FairBound == Len(ops) <= MaxFairOps /\ Len(enqueued) <= MaxFairChunks

FairNext ==
  \/ Shift /\ FairBound'
  \/ ReadUint8Array /\ FairBound'
  \/ Data /\ FairBound'
  \/ Close
  \/ RunMicrotask

FairSpec == Init /\ [][FairNext]_vars /\ WF_vars(RunMicrotask)

\* an op is suspended when it is pending and no job will continue it
Suspended(p) == ops[p].pc \in {"waiting", "queued"}

CloseRejectsSuspended ==
  (~destroyed /\ destroyed') =>
    \A p \in Pids :
      Suspended(p) => ops'[p].status = "rejected" /\ ops'[p].error = "StreamEnded"

RECURSIVE Lengths(_)
Lengths(q) == IF q = <<>> THEN 0 ELSE Len(Head(q)) + Lengths(Tail(q))

Unread(q, idx) == IF q = <<>> THEN 0 ELSE Max(Len(q[1]) - idx, 0) + Lengths(Tail(q))

ReadCompletes == \E p \in Pids : ops[p].status = "pending" /\ ops'[p].status = "resolved"

DrainListenerIds == {events.drain[i].callback.id : i \in 1..Len(events.drain)}

\* C8: a read that completes and leaves no unread byte in the chunk queue sets
\* drained, invokes every registered drain listener and discards the
\* onceDrain listeners.
C8_ReadThatEmptiesTheQueueDrains ==
  [][(ReadCompletes /\ Unread(chunkQueue', chunkIdx') = 0) =>
       /\ drained'
       /\ \A id \in DrainListenerIds : calls'[id] = calls[id] + 1
       /\ \A i \in 1..Len(events'.drain) : events'.drain[i].type = "on"]_vars

\* ---- LockQueue on its own: clients that acquire, hold and release ----
MaxClients == 4

NewClient(S) ==
  [pc |-> "acquire", status |-> "pending", error |-> "none", wait |-> 0,
   \* history: the earlier callers not yet granted the lock at the call
   behind |-> {q \in 1..Len(S.ops) : S.ops[q].pc \in {"acquire", "queued"}}]

LockAcquire ==
  /\ Len(ops) < MaxClients
  /\ LET pid == Len(ops) + 1
         a == acquire(lock, pid)
         C == [St EXCEPT !.ops = Append(@, NewClient(St)), !.lock = a.lock]
     IN  Commit(CASE a.outcome = "resolved" ->
                       [C EXCEPT !.microtasks = Append(@, <<pid, 0>>)]
                  [] a.outcome = "queued" -> [C EXCEPT !.ops[pid].pc = "queued"]
                  [] a.outcome = "rejected" ->
                       [C EXCEPT !.ops[pid].pc = "done",
                                 !.ops[pid].status = "rejected",
                                 !.ops[pid].error = "acquireError"])

\* the continuation of `await lock.acquire()`: the caller now holds the lock
LockGranted ==
  /\ microtasks # <<>>
  /\ LET pid == Head(microtasks)[1]
     IN  Commit([St EXCEPT !.ops[pid].pc = "holding",
                           !.grants = Append(@, pid),
                           !.microtasks = Tail(@)])

LockRelease ==
  \E pid \in Pids :
    /\ ops[pid].pc = "holding"
    /\ LET r == release(lock)
       IN  Commit([St EXCEPT
             !.lock = r.lock,
             !.microtasks = @ \o [i \in 1..Len(r.woken) |-> <<r.woken[i], 0>>],
             !.ops[pid].pc = "done",
             !.ops[pid].status = "resolved"])

LockNext ==
  \/ LockAcquire
  \/ LockGranted
  \/ LockRelease

LockSpec == Init /\ [][LockNext]_vars

MaxLegacyOps == 1
MaxLegacyChunks == 2
MaxLegacyChunkLen == 1
MaxLegacyRead == 2
MaxLegacyListeners == 2

\* a promise of the earlier variant is pending while its op is suspended on it
legacyReject(S, pid, at) ==
  IF S.ops[pid].pc = at
    THEN [S EXCEPT !.ops[pid].pc = "done", !.ops[pid].status = "rejected",
                   !.ops[pid].error = "Error", !.ops[pid].by = "end"]
    ELSE S

RECURSIVE legacyRejectAll(_, _, _)
legacyRejectAll(S, pids, at) ==
  IF pids = <<>> THEN S
  ELSE legacyRejectAll(legacyReject(S, Head(pids), at), Tail(pids), at)

\* nukeReads(): reject the waiters for the lock and for data, empty
\* #lockQueue, keep the lock taken, make push reject and shift re-lock
nukeReads(S) ==
  LET R == legacyRejectAll(legacyRejectAll(S, S.lockQueue, "queued"),
                           S.onDataListeners, "waiting")
  IN  [R EXCEPT !.lockQueue = <<>>, !.locked = TRUE, !.nuked = TRUE]

\* every listener of #onDrainListeners, then of #onceDrainListeners, is called
RECURSIVE callListeners(_, _)
callListeners(S, ids) ==
  IF ids = <<>> THEN S
  ELSE callListeners([S EXCEPT !.calls[Head(ids)] = @ + 1], Tail(ids))

\* #relaseLock(): unlock, hand the lock to the first waiter, run the drain
\* listeners when the head chunk is used up
relaseLock(S) ==
  LET U == [S EXCEPT !.locked = FALSE]
      H == IF U.nuked THEN [U EXCEPT !.locked = TRUE]
           ELSE IF U.lockQueue # <<>>
             THEN [U EXCEPT !.lockQueue = Tail(@),
                            !.ops[Head(U.lockQueue)].pc = "acquire",
                            !.microtasks = Append(@, <<Head(U.lockQueue), 1>>)]
           ELSE U
      listeners == H.onDrainListeners \o H.onceDrainListeners
  IN  IF /\ Len(listeners) > 0
         /\ ~H.drained
         /\ H.readableLength = 0
         /\ (Len(H.chunkQueue) = 0 \/ H.chunkIdx >= Len(H.chunkQueue[1]))
        THEN [callListeners([H EXCEPT !.drained = TRUE], listeners)
                EXCEPT !.onceDrainListeners = <<>>]
        ELSE H

\* #aquireLock(), called by shift() and readUint8Array()
aquireLock(S, kind, bytes) ==
  LET pid == Len(S.ops) + 1
      C == [S EXCEPT !.ops = Append(@, NewOp(kind, bytes, S))]
  IN  IF C.locked
        THEN IF C.nuked
               THEN legacyReject([C EXCEPT !.ops[pid].pc = "queued"], pid, "queued")
               ELSE [C EXCEPT !.ops[pid].pc = "queued",
                              !.lockQueue = Append(@, pid)]
        ELSE [C EXCEPT !.locked = TRUE,
                       !.microtasks = Append(@, <<pid, 0>>)]

\* #waitChunk() as it would be if it kept #onceDrainListeners
legacyWaitChunk_keepOnce(S, pid) ==
  LET evicted ==
        IF Len(S.chunkQueue) > 0 /\ S.chunkIdx >= Len(S.chunkQueue[1])
          THEN [S EXCEPT !.chunkIdx = 0, !.chunkQueue = Tail(@)]
          ELSE S
      listeners == evicted.onDrainListeners \o evicted.onceDrainListeners
      D == IF ~evicted.drained /\ evicted.readableLength = 0
             THEN callListeners([evicted EXCEPT !.drained = TRUE], listeners)
             ELSE evicted
      W == [D EXCEPT !.ops[pid].pc = "waiting",
                     !.ops[pid].wait = @ + 1,
                     !.onDataListeners = Append(@, pid)]
  IN  IF Len(evicted.chunkQueue) = 0
        THEN IF W.destroyed THEN nukeReads(W) ELSE W
        ELSE [evicted EXCEPT !.ops[pid].pc = "chunk",
                             !.microtasks = Append(@, <<pid, 0>>)]

\* #waitChunk() up to its await
legacyWaitChunk(S, pid) ==
  LET evicted ==
        IF Len(S.chunkQueue) > 0 /\ S.chunkIdx >= Len(S.chunkQueue[1])
          THEN [S EXCEPT !.chunkIdx = 0, !.chunkQueue = Tail(@)]
          ELSE S
      listeners == evicted.onDrainListeners \o evicted.onceDrainListeners
      D == IF ~evicted.drained /\ evicted.readableLength = 0
             THEN IF Len(listeners) > 0
                    THEN [callListeners([evicted EXCEPT !.drained = TRUE], listeners)
                            EXCEPT !.onceDrainListeners = <<>>]
                    ELSE [evicted EXCEPT !.drained = TRUE]
             ELSE evicted
      W == [D EXCEPT !.ops[pid].pc = "waiting",
                     !.ops[pid].wait = @ + 1,
                     !.onDataListeners = Append(@, pid)]
  IN  IF Len(evicted.chunkQueue) = 0
        THEN IF W.destroyed THEN nukeReads(W) ELSE W
        ELSE [evicted EXCEPT !.ops[pid].pc = "chunk",
                             !.microtasks = Append(@, <<pid, 0>>)]

\* shift() after #waitChunk
legacyShiftBody(S, pid) ==
  IF Len(S.chunkQueue) = 0
    THEN throw(S, pid, "TypeError")
    ELSE LET chunk == S.chunkQueue[1]
             byte == IF S.chunkIdx < Len(chunk)
                       THEN chunk[S.chunkIdx + 1] ELSE Undefined
         IN  return(relaseLock([S EXCEPT !.chunkIdx = @ + 1]), pid, <<byte>>)

\* readUint8Array(bytes): the loop test, and what follows the loop
legacyReadLoop(S, pid) ==
  IF S.ops[pid].bytesLeft # 0
    THEN legacyWaitChunk(S, pid)
    ELSE LET joined == joinUint8Arrays(S.ops[pid].chunks, S.ops[pid].bytes)
             released == relaseLock(S)
         IN  IF joined.error # "none"
               THEN throw(released, pid, joined.error)
               ELSE return(released, pid, joined.value)

\* readUint8Array(bytes): the loop body after #waitChunk
legacyReadBody(S, pid) ==
  IF Len(S.chunkQueue) = 0
    THEN throw(S, pid, "TypeError")
    ELSE LET chunk == S.chunkQueue[1]
             idx == S.chunkIdx
             bytesLeft == S.ops[pid].bytesLeft
         IN  IF Len(chunk) - idx > bytesLeft
               THEN legacyReadLoop([S EXCEPT
                      !.ops[pid].chunks = @ \o subarray(chunk, idx, idx + bytesLeft),
                      !.chunkIdx = idx + bytesLeft,
                      !.ops[pid].bytesLeft = 0], pid)
               ELSE legacyReadLoop([S EXCEPT
                      !.ops[pid].chunks = @ \o subarray(chunk, idx, Len(chunk)),
                      !.ops[pid].bytesLeft = bytesLeft - (Len(chunk) - idx),
                      !.chunkQueue = Tail(@)], pid)

legacyResume(S, pid) ==
  LET op == S.ops[pid]
  IN  CASE op.pc = "acquire" ->
             LET G == [S EXCEPT !.grants = Append(@, pid)]
             IN  IF op.kind = "shift" THEN legacyWaitChunk(G, pid)
                                      ELSE legacyReadLoop(G, pid)
        \* #waitChunk after its await: the cursor is reset, then it returns
        [] op.pc = "woken" ->
             [S EXCEPT !.chunkIdx = 0, !.ops[pid].pc = "chunk",
                       !.microtasks = Append(@, <<pid, 0>>)]
        [] op.pc = "chunk" ->
             IF op.kind = "shift" THEN legacyShiftBody(S, pid)
                                  ELSE legacyReadBody(S, pid)
        [] OTHER -> S

\* #onDataListeners.forEach(([listener]) => listener()): the listener at
\* index i removes itself, so the entry after it moves to i and is skipped
RECURSIVE legacyForEach(_, _)
legacyForEach(S, i) ==
  IF i > Len(S.onDataListeners) THEN S
  ELSE LET pid == S.onDataListeners[i]
           removed == [S EXCEPT !.onDataListeners =
                         SubSeq(@, 1, i - 1) \o SubSeq(@, i + 1, Len(@))]
           woken == IF removed.ops[pid].pc = "waiting"
                      THEN [removed EXCEPT !.ops[pid].pc = "woken",
                                           !.microtasks = Append(@, <<pid, 0>>)]
                      ELSE removed
       IN  legacyForEach(woken, i + 1)

\* the 'data' listener of the constructor
legacyOnData(S, chunk) ==
  legacyForEach([S EXCEPT !.chunkQueue = Append(@, chunk), !.drained = FALSE,
                          !.enqueued = Append(@, chunk)], 1)

\* the 'end' listener of the constructor
legacyOnEnd(S) ==
  LET E == [S EXCEPT !.destroyed = TRUE]
  IN  IF Len(E.onDataListeners) > 0 THEN nukeReads(E) ELSE E

LegacyShift ==
  /\ Len(ops) < MaxLegacyOps
  /\ Commit(aquireLock(St, "shift", 1))

LegacyReadUint8Array ==
  /\ Len(ops) < MaxLegacyOps
  /\ \E bytes \in 1..MaxLegacyRead : Commit(aquireLock(St, "read", bytes))

LegacyData ==
  /\ ~destroyed
  /\ Len(enqueued) < MaxLegacyChunks
  /\ \E len \in 1..MaxLegacyChunkLen :
       Commit(legacyOnData([St EXCEPT !.readableLength = 0],
                           [i \in 1..len |-> Len(Flatten(enqueued)) + i]))

\* the source reads a chunk into its own buffer, from which 'data' takes it
LegacySourceBuffers ==
  /\ ~destroyed
  /\ readableLength = 0
  /\ Len(enqueued) < MaxLegacyChunks
  /\ Commit([St EXCEPT !.readableLength = 1])

LegacyEnd ==
  /\ ~destroyed
  /\ readableLength = 0
  /\ Commit(legacyOnEnd(St))

LegacyOnDrain ==
  /\ Len(calls) < MaxLegacyListeners
  /\ Commit([St EXCEPT !.calls = Append(@, 0),
                       !.onDrainListeners = Append(@, Len(calls) + 1)])

LegacyOnceDrain ==
  /\ Len(calls) < MaxLegacyListeners
  /\ Commit([St EXCEPT !.calls = Append(@, 0),
                       !.onceDrainListeners = Append(@, Len(calls) + 1)])

LegacyRunMicrotask ==
  /\ microtasks # <<>>
  /\ LET job == Head(microtasks)
         S == [St EXCEPT !.microtasks = Tail(@)]
     IN  IF job[2] > 0
           THEN Commit([S EXCEPT !.microtasks = Append(@, <<job[1], job[2] - 1>>)])
           ELSE Commit(legacyResume(S, job[1]))

LegacyNext ==
  \/ LegacyShift
  \/ LegacyReadUint8Array
  \/ LegacyData
  \/ LegacySourceBuffers
  \/ LegacyEnd
  \/ LegacyOnDrain
  \/ LegacyOnceDrain
  \/ LegacyRunMicrotask

LegacySpec == Init /\ [][LegacyNext]_vars

\* ---- drain listeners of the earlier variant ----
Persistent(id) == \E i \in 1..Len(onDrainListeners) : onDrainListeners[i] = id

DrainTransition == ~drained /\ drained'

DrainStep ==
  \A id \in 1..Len(calls) :
    IF Persistent(id)
      THEN calls'[id] = calls[id] + (IF DrainTransition THEN 1 ELSE 0)
      ELSE calls[id] <= calls'[id] /\ calls'[id] <= 1

\* C9: a step that takes drained from false to true calls every onDrain
\* listener exactly once, a step that does not calls none of them, and a
\* listener registered with onceDrain is never called more than once.
C9_ListenersFireOncePerDrain == [][DrainStep]_vars

\* two drain transitions have happened: the onDrain listener was called for
\* both, the onceDrain listener only for the first
C9_Witness ==
  \E id, other \in 1..Len(calls) :
    /\ Persistent(id) /\ calls[id] = 2
    /\ ~Persistent(other) /\ calls[other] = 1

\* C10: drained is true only while the chunk queue holds no unread byte.
C10_DrainedMeansNothingUnread ==
  drained => Unread(chunkQueue, chunkIdx) = 0

\* ---- chunkingWritableStream ----
\* The k-th byte passed to the write calls has the value k.  The sink takes
\* the bytes of a chunk when stream.write is called and acknowledges the
\* write later, with no error.
MaxChunkSize == 3   \* largest chunk size
MaxWritten == 4     \* bytes written in all
MaxWriteLen == 3    \* bytes of one writeUint8Array / writeArray call
MaxCalls == 4       \* calls made on the writer

CSt ==
  [buffer |-> buffer, used |-> used, chunkSize |-> chunkSize, sink |-> sink,
   written |-> written, writer |-> writer]

CBecome(W) ==
  /\ buffer' = W.buffer
  /\ used' = W.used
  /\ chunkSize' = W.chunkSize
  /\ sink' = W.sink
  /\ written' = W.written
  /\ writer' = W.writer
  /\ UNCHANGED <<readerVars, fixed, readable, endian, twos, twin, decode, transformer, overlap, growable, floats, shared, emitter>>

CCommit(W) == \E T \in {W} : CBecome(T)

\* new Uint8Array(n), and buffer.fill(0)
Zeros(n) == [i \in 1..n |-> 0]

\* target.set(source, offset): the bytes of source replace those of target
\* from offset on
set(target, source, offset) ==
  [i \in 1..Len(target) |->
     IF i > offset /\ i <= offset + Len(source) THEN source[i - offset]
     ELSE target[i]]

\* the call has run to its end: its promise resolves
chunkDone(W) == [W EXCEPT !.writer.pc = "idle"]

\* #flushFull(): the whole buffer goes to stream.write
flushFull(W) ==
  [W EXCEPT !.sink = Append(@, W.buffer), !.writer.pc = "flushFull"]

\* flush() as it would be if it wrote the whole buffer
flush_whole(W) ==
  IF W.used = 0 THEN chunkDone(W)
  ELSE [W EXCEPT !.sink = Append(@, W.buffer), !.writer.pc = "flush"]

\* flush(): the used section of the buffer goes to stream.write
flush(W) ==
  IF W.used = 0 THEN chunkDone(W)
  ELSE [W EXCEPT !.sink = Append(@, subarray(W.buffer, 0, W.used)),
                 !.writer.pc = "flush"]

\* the callback given to stream.write by #flushFull and flush
writeCallback(W) ==
  [W EXCEPT !.used = 0, !.buffer = Zeros(Len(W.buffer)),
            !.writer.pc = "resume"]

\* push(value) after its test of the buffer: this.#buffer[this.#used++] = value
pushStore(W) ==
  chunkDone([W EXCEPT !.buffer = set(W.buffer, W.writer.value, W.used),
                      !.used = @ + 1])

\* push(value)
push(W) ==
  IF W.used = Len(W.buffer) THEN flushFull(W) ELSE pushStore(W)

\* the while loop of writeUint8Array(value) and of writeArray(value)
RECURSIVE writeLoop(_)
writeLoop(W) ==
  IF W.writer.bytesLeft > 0
    THEN IF W.used = Len(W.buffer)
           THEN flushFull(W)
           ELSE LET bytesToWrite == Min(W.writer.bytesLeft, Len(W.buffer) - W.used)
                    index == W.writer.index
                IN  writeLoop([W EXCEPT
                      !.buffer = set(W.buffer,
                                     subarray(W.writer.value, index, index + bytesToWrite),
                                     W.used),
                      !.used = @ + bytesToWrite,
                      !.writer.index = @ + bytesToWrite,
                      !.writer.bytesLeft = @ - bytesToWrite])
    ELSE chunkDone(W)

\* a call on the writer: its arguments are recorded and it starts
chunkCall(W, kind, value) ==
  [W EXCEPT !.writer = [kind |-> kind, pc |-> "run", value |-> value,
                        index |-> 0, bytesLeft |-> Len(value),
                        ncalls |-> W.writer.ncalls + 1],
            !.written = @ + Len(value)]

\* the bytes of the next write call: they follow those written so far
NextBytes(len) == [i \in 1..len |-> written + i]

\* what runs after the awaited write has been acknowledged
chunkResume(W) ==
  CASE W.writer.kind = "push" -> pushStore(W)
    [] W.writer.kind \in {"writeUint8Array", "writeArray"} -> writeLoop(W)
    [] W.writer.kind = "setChunkSize" ->
         chunkDone([W EXCEPT !.buffer = Zeros(W.chunkSize)])
    [] OTHER -> chunkDone(W)

\* new chunkingWritableStream(stream, chunkSize)
ChunkNew ==
  /\ writer.pc = "new"
  /\ \E size \in 1..MaxChunkSize :
       CCommit([CSt EXCEPT !.chunkSize = size, !.buffer = Zeros(size),
                           !.writer.pc = "idle"])

\* the calls are awaited one after the other
ChunkReady == writer.pc = "idle" /\ writer.ncalls < MaxCalls

ChunkPush ==
  /\ ChunkReady
  /\ written < MaxWritten
  /\ CCommit(push(chunkCall(CSt, "push", NextBytes(1))))

ChunkWrite ==
  /\ ChunkReady
  /\ \E kind \in {"writeUint8Array", "writeArray"} :
       \E len \in 0..Min(MaxWriteLen, MaxWritten - written) :
         CCommit(writeLoop(chunkCall(CSt, kind, NextBytes(len))))

ChunkFlush ==
  /\ ChunkReady
  /\ CCommit(flush(chunkCall(CSt, "flush", <<>>)))

ChunkWriteCallback ==
  /\ writer.pc \in {"flushFull", "flush"}
  /\ CCommit(writeCallback(CSt))

ChunkResume ==
  /\ writer.pc = "resume"
  /\ CCommit(chunkResume(CSt))

ChunkNext ==
  \/ ChunkNew
  \/ ChunkPush
  \/ ChunkWrite
  \/ ChunkFlush
  \/ ChunkWriteCallback
  \/ ChunkResume

ChunkSpec == Init /\ [][ChunkNext]_vars

Iota(n) == [i \in 1..n |-> i]

\* the chunk handed to the sink by this step, if any
Forwarded == sink'[Len(sink')]

ForwardStep ==
  /\ Len(sink') \in {Len(sink), Len(sink) + 1}
  /\ sink' # sink =>
       \/ /\ writer'.pc = "flushFull"
          /\ used' = chunkSize'
          /\ Forwarded = buffer' /\ Len(Forwarded) = chunkSize'
       \/ /\ writer'.pc = "flush" /\ writer'.kind = "flush"
          /\ used' > 0
          /\ Forwarded = SubSeq(buffer', 1, used')
  /\ (writer'.ncalls # writer.ncalls /\ writer'.kind = "flush" /\ used = 0)
       => sink' = sink

\* C11: when the awaited calls have completed, the chunks forwarded to the
\* sink followed by the used part of the buffer are the bytes written, in
\* order, and after flush() the buffer is empty; a chunk is forwarded either
\* by a write that found the buffer full, and is then the whole buffer, or by
\* flush(), and is then the non-empty used prefix.
C11_SinkReceivesWhatWasWritten ==
  /\ [](writer.pc = "idle" =>
          /\ Flatten(sink) \o SubSeq(buffer, 1, used) = Iota(written)
          /\ writer.kind = "flush" => used = 0)
  /\ [][ForwardStep]_vars

\* a full chunk was forwarded by a write and a partial one by the last flush()
C11_Witness ==
  /\ writer.pc = "idle" /\ writer.kind = "flush"
  /\ Len(sink) >= 2
  /\ Len(sink[1]) = chunkSize
  /\ Len(sink[Len(sink)]) < chunkSize
  /\ Flatten(sink) = Iota(written)

\* ---- chunkingWritableStream with setChunkSize ----
\* setChunkSize(value)
setChunkSize(W, value) ==
  LET V == [W EXCEPT !.chunkSize = value]
  IN  IF V.used < value
        THEN chunkDone([V EXCEPT !.buffer =
                          set(Zeros(value), subarray(V.buffer, 0, V.used), 0)])
      ELSE IF V.used > value
        THEN flush(V)
      ELSE chunkDone(V)

ChunkSetChunkSize ==
  /\ ChunkReady
  /\ \E value \in 1..MaxChunkSize :
       CCommit(setChunkSize(chunkCall(CSt, "setChunkSize", <<>>), value))

ResizeNext ==
  \/ ChunkNew
  \/ ChunkPush
  \/ ChunkWrite
  \/ ChunkFlush
  \/ ChunkSetChunkSize
  \/ ChunkWriteCallback
  \/ ChunkResume

ResizeSpec == Init /\ [][ResizeNext]_vars

\* C12: when setChunkSize(v) has resolved, and until the next one, the buffer
\* has v bytes, the value of the chunkSize getter.
C12_CapacityIsTheChunkSize ==
  writer.pc = "idle" => Len(buffer) = chunkSize

\* ---- writableBufferFixedSize ----
MaxFixedLength == 3   \* largest maxLength
MaxFixedWrite == 2    \* bytes of one write call
MaxFixedCalls == 4    \* calls made on the buffer

\* a call on the buffer is recorded with its arguments
fixedCall(F, kind, value) ==
  [F EXCEPT !.ncalls = @ + 1, !.next = @ + Len(value),
            !.call = [kind |-> kind, value |-> value, threw |-> FALSE]]

\* throw new Error(...)
fixedThrow(F) == [F EXCEPT !.call.threw = TRUE]

\* push(value)
fixedPush(F, value) ==
  IF F.used = Len(F.buffer) THEN fixedThrow(F)
  ELSE [F EXCEPT !.buffer = set(F.buffer, <<value>>, F.used), !.used = @ + 1]

\* writeUint8Array(value) as it would be with >= in its test
fixedWriteUint8Array_offByOne(F, value) ==
  IF F.used + Len(value) >= Len(F.buffer) THEN fixedThrow(F)
  ELSE [F EXCEPT !.buffer = set(F.buffer, value, F.used),
                 !.used = @ + Len(value)]

\* writeUint8Array(value)
fixedWriteUint8Array(F, value) ==
  IF F.used + Len(value) > Len(F.buffer) THEN fixedThrow(F)
  ELSE [F EXCEPT !.buffer = set(F.buffer, value, F.used),
                 !.used = @ + Len(value)]

\* writeArray(value)
fixedWriteArray(F, value) ==
  IF F.used + Len(value) > Len(F.buffer) THEN fixedThrow(F)
  ELSE [F EXCEPT !.buffer = set(F.buffer, value, F.used),
                 !.used = @ + Len(value)]

\* writeWriteableBuffer(value), value being a buffer that holds the bytes
\* `bytes`: value.length is their number and value.buffer their sequence
fixedWriteWriteableBuffer(F, bytes) ==
  IF Len(bytes) > Len(F.buffer) - F.used THEN fixedThrow(F)
  ELSE fixedWriteUint8Array(F, bytes)

\* reset()
fixedReset(F) == [F EXCEPT !.used = 0]

\* set maxLength(value)
fixedSetMaxLength(F, value) ==
  IF value < F.used THEN fixedThrow(F)
  ELSE [F EXCEPT !.buffer = set(Zeros(value), subarray(F.buffer, 0, F.used), 0)]

FCommit(F) == fixed' = F /\ UNCHANGED <<readerVars, chunkVars, readable, endian, twos, twin, decode, transformer, overlap, growable, floats, shared, emitter>>

\* new writableBufferFixedSize(maxLength)
FixedNew ==
  /\ ~fixed.made
  /\ \E maxLength \in 0..MaxFixedLength :
       FCommit([fixed EXCEPT !.made = TRUE, !.buffer = Zeros(maxLength)])

FixedReady == fixed.made /\ fixed.ncalls < MaxFixedCalls

FixedBytes(len) == [i \in 1..len |-> fixed.next + i - 1]

FixedPush ==
  /\ FixedReady
  /\ FCommit(fixedPush(fixedCall(fixed, "push", FixedBytes(1)), fixed.next))

FixedWriteUint8Array ==
  /\ FixedReady
  /\ \E len \in 0..MaxFixedWrite :
       FCommit(fixedWriteUint8Array(
                 fixedCall(fixed, "writeUint8Array", FixedBytes(len)),
                 FixedBytes(len)))

FixedWriteArray ==
  /\ FixedReady
  /\ \E len \in 0..MaxFixedWrite :
       FCommit(fixedWriteArray(
                 fixedCall(fixed, "writeArray", FixedBytes(len)),
                 FixedBytes(len)))

FixedWriteWriteableBuffer ==
  /\ FixedReady
  /\ \E len \in 0..MaxFixedWrite :
       FCommit(fixedWriteWriteableBuffer(
                 fixedCall(fixed, "writeWriteableBuffer", FixedBytes(len)),
                 FixedBytes(len)))

FixedReset ==
  /\ FixedReady
  /\ FCommit(fixedReset(fixedCall(fixed, "reset", <<>>)))

FixedSetMaxLength ==
  /\ FixedReady
  /\ \E value \in 0..MaxFixedLength :
       FCommit(fixedSetMaxLength(fixedCall(fixed, "maxLength", <<>>), value))

FixedNext ==
  \/ FixedNew
  \/ FixedPush
  \/ FixedWriteUint8Array
  \/ FixedWriteArray
  \/ FixedWriteWriteableBuffer
  \/ FixedReset
  \/ FixedSetMaxLength

FixedSpec == Init /\ [][FixedNext]_vars

FixedWrites == {"push", "writeUint8Array", "writeArray", "writeWriteableBuffer"}

\* the bytes the buffer getter returns
FixedStored(F) == SubSeq(F.buffer, 1, F.used)

FixedWriteStep ==
  (fixed'.ncalls # fixed.ncalls /\ fixed'.call.kind \in FixedWrites) =>
    LET value == fixed'.call.value
    IN  /\ fixed'.call.threw <=> fixed.used + Len(value) > Len(fixed.buffer)
        /\ fixed'.call.threw =>
             fixed'.used = fixed.used /\ fixed'.buffer = fixed.buffer
        /\ ~fixed'.call.threw =>
             /\ fixed'.used = fixed.used + Len(value)
             /\ FixedStored(fixed') = FixedStored(fixed) \o value

\* C13: a write throws exactly when the used length plus the bytes to write
\* exceeds maxLength, a write that throws changes neither the used length nor
\* the stored bytes, a write that does not appends its bytes, and the used
\* length stays between 0 and maxLength.
C13_WritesThrowExactlyWhenOverCapacity ==
  /\ [](fixed.used >= 0 /\ fixed.used <= Len(fixed.buffer))
  /\ [][FixedWriteStep]_vars

\* a write threw although the buffer was neither empty nor full
C13_Witness ==
  /\ fixed.call.kind \in FixedWrites /\ fixed.call.threw
  /\ fixed.used > 0 /\ fixed.used < Len(fixed.buffer)

\* ---- readableBuffer ----
\* The i-th byte of the buffer has the value i.
MaxBufferLen == 3     \* bytes of the buffer
MaxBufferRead == 3    \* largest byte count of a read
MaxBufferCalls == 3   \* calls made on the buffer

\* a call on the buffer is recorded with its argument
bufferCall(B, kind, bytes) ==
  [B EXCEPT !.ncalls = @ + 1,
            !.call = [kind |-> kind, bytes |-> bytes, threw |-> FALSE,
                      result |-> <<>>]]

\* throw new RangeError("readableBuffer out of bounds")
bufferThrow(B) == [B EXCEPT !.call.threw = TRUE]

\* shift()
bufferShift(B) ==
  IF Len(B.buffer) <= B.index THEN bufferThrow(B)
  ELSE [B EXCEPT !.call.result = <<B.buffer[B.index + 1]>>, !.index = @ + 1]

\* readUint8Array(bytes)
bufferReadUint8Array(B, bytes) ==
  IF Len(B.buffer) < B.index + bytes THEN bufferThrow(B)
  ELSE [B EXCEPT !.call.result = subarray(B.buffer, B.index, B.index + bytes),
                 !.index = @ + bytes]

\* readReadableBuffer(bytes): a readableBuffer over the bytes read
bufferReadReadableBuffer(B, bytes) ==
  IF Len(B.buffer) < B.index + bytes THEN bufferThrow(B)
  ELSE [B EXCEPT !.call.result = subarray(B.buffer, B.index, B.index + bytes),
                 !.index = @ + bytes]

\* Array.prototype.slice.call(array, start, end)
slice(array, start, end) ==
  LET b == Min(start, Len(array))
      e == Min(end, Len(array))
  IN  IF b >= e THEN <<>> ELSE SubSeq(array, b + 1, e)

\* readArray(bytes): #index is advanced in the call of slice, then the
\* length of the output is tested
bufferReadArray(B, bytes) ==
  LET output == slice(B.buffer, B.index, B.index + bytes)
      A == [B EXCEPT !.index = @ + bytes]
  IN  IF Len(output) # bytes THEN bufferThrow(A)
      ELSE [A EXCEPT !.call.result = output]

BCommit(B) == readable' = B /\ UNCHANGED <<readerVars, chunkVars, fixed, endian, twos, twin, decode, transformer, overlap, growable, floats, shared, emitter>>

\* new readableBuffer(data)
BufferNew ==
  /\ ~readable.made
  /\ \E len \in 0..MaxBufferLen :
       BCommit([readable EXCEPT !.made = TRUE, !.buffer = Iota(len)])

BufferReady == readable.made /\ readable.ncalls < MaxBufferCalls

BufferShift ==
  /\ BufferReady
  /\ BCommit(bufferShift(bufferCall(readable, "shift", 1)))

BufferReadUint8Array ==
  /\ BufferReady
  /\ \E bytes \in 0..MaxBufferRead :
       BCommit(bufferReadUint8Array(bufferCall(readable, "readUint8Array", bytes), bytes))

BufferReadReadableBuffer ==
  /\ BufferReady
  /\ \E bytes \in 0..MaxBufferRead :
       BCommit(bufferReadReadableBuffer(
                 bufferCall(readable, "readReadableBuffer", bytes), bytes))

BufferReadArray ==
  /\ BufferReady
  /\ \E bytes \in 0..MaxBufferRead :
       BCommit(bufferReadArray(bufferCall(readable, "readArray", bytes), bytes))

BufferNext ==
  \/ BufferNew
  \/ BufferShift
  \/ BufferReadUint8Array
  \/ BufferReadReadableBuffer
  \/ BufferReadArray

BufferSpec == Init /\ [][BufferNext]_vars

\* the bytes after the offset
Remaining(B) == subarray(B.buffer, B.index, Len(B.buffer))

BufferReadStep ==
  readable'.ncalls # readable.ncalls =>
    LET bytes == readable'.call.bytes
    IN  /\ readable'.call.threw <=> bytes > Len(Remaining(readable))
        /\ ~readable'.call.threw =>
             /\ readable'.call.result = SubSeq(Remaining(readable), 1, bytes)
             /\ readable'.index = readable.index + bytes

\* C14: a read throws RangeError exactly when it asks for more bytes than
\* remain after the offset; otherwise it returns the next bytes in order and
\* advances the offset by their number.
C14_ReadsThrowExactlyWhenOutOfBounds == [][BufferReadStep]_vars

\* ---- the endian aliases (readableBufferBase, writableBufferBase) ----
MaxEndianBytes == 3   \* bytes of a call made through an alias

\* array.reverse()
Reverse(array) == [i \in 1..Len(array) |-> array[Len(array) + 1 - i]]

\* the primitives that read or write last byte first
BackwardPrimitives ==
  {"readBackwards", "readUint8ArrayBackwards", "readArrayBackwards",
   "writeArrayBackwards", "writeUint8ArrayBackwards"}

\* the field initialisers of readableBufferBase
readerFields ==
  [isLe |-> FALSE,
   read |-> "readUint8Array",
   readBackwards |-> "readUint8ArrayBackwards",
   readUint8ArrayEndian |-> "readUint8Array",
   readUint8ArrayBackwardsEndian |-> "readUint8ArrayBackwards",
   readArrayEndian |-> "readArray",
   readArrayBackwardsEndian |-> "readArrayBackwards",
   readEndian |-> "readUint8Array",
   readBackwardsEndian |-> "readUint8ArrayBackwards"]

\* the field initialisers of writableBufferBase
writerFields ==
  [isLe |-> FALSE,
   writeArrayEndian |-> "writeArray",
   writeArrayBackwardsEndian |-> "writeArrayBackwards",
   writeUint8ArrayEndian |-> "writeUint8Array",
   writeUint8ArrayBackwardsEndian |-> "writeUint8ArrayBackwards"]

\* set isLe of readableBufferBase
readerSetIsLe(r, isLe) ==
  IF isLe
    THEN [r EXCEPT !.readEndian = r.readBackwards,
                   !.readBackwardsEndian = r.read,
                   !.readUint8ArrayEndian = "readUint8ArrayBackwards",
                   !.isLe = isLe]
    ELSE [r EXCEPT !.readEndian = r.read,
                   !.readBackwardsEndian = r.readBackwards,
                   !.readUint8ArrayEndian = "readUint8Array",
                   !.isLe = isLe]

\* set isLe of writableBufferBase
writerSetIsLe(w, isLe) ==
  IF isLe
    THEN [w EXCEPT !.writeArrayEndian = "writeArrayBackwards",
                   !.writeArrayBackwardsEndian = "writeArray",
                   !.writeUint8ArrayEndian = "writeUint8ArrayBackwards",
                   !.writeUint8ArrayBackwardsEndian = "writeUint8Array",
                   !.isLe = isLe]
    ELSE [w EXCEPT !.writeArrayEndian = "writeArray",
                   !.writeArrayBackwardsEndian = "writeArrayBackwards",
                   !.writeUint8ArrayEndian = "writeUint8Array",
                   !.writeUint8ArrayBackwardsEndian = "writeUint8ArrayBackwards",
                   !.isLe = isLe]

\* a class as exported ("plain"), or addDefaultEndianness(class, isLe): the
\* constructor of the class, then this.isLe = isLe
Defaults == {"plain", "LE", "BE"}

newReader(default) ==
  IF default = "plain" THEN readerFields
  ELSE readerSetIsLe(readerFields, default = "LE")

newWriter(default) ==
  IF default = "plain" THEN writerFields
  ELSE writerSetIsLe(writerFields, default = "LE")

\* the bytes a primitive returns, or stores, for the bytes 1..n
apply(primitive, n) ==
  IF primitive \in BackwardPrimitives THEN Reverse(Iota(n)) ELSE Iota(n)

EndianAliases ==
  {"readEndian", "readUint8ArrayEndian", "readArrayEndian",
   "writeArrayEndian", "writeUint8ArrayEndian"}

BackwardsEndianAliases ==
  {"readBackwardsEndian", "readUint8ArrayBackwardsEndian",
   "readArrayBackwardsEndian",
   "writeArrayBackwardsEndian", "writeUint8ArrayBackwardsEndian"}

ReaderAliases == {a \in EndianAliases \cup BackwardsEndianAliases :
                    a \in DOMAIN readerFields}

WriterAliases == {a \in EndianAliases \cup BackwardsEndianAliases :
                    a \in DOMAIN writerFields}

ECommit(E) ==
  endian' = E /\ UNCHANGED <<readerVars, chunkVars, fixed, readable, twos, twin, decode, transformer, overlap, growable, floats, shared, emitter>>

EndianNew ==
  /\ ~endian.made
  /\ \E r \in Defaults, w \in Defaults :
       ECommit([endian EXCEPT !.made = TRUE, !.reader = newReader(r),
                              !.writer = newWriter(w)])

EndianReaderSetIsLe ==
  /\ endian.made
  /\ \E isLe \in BOOLEAN :
       ECommit([endian EXCEPT !.reader = readerSetIsLe(@, isLe)])

EndianWriterSetIsLe ==
  /\ endian.made
  /\ \E isLe \in BOOLEAN :
       ECommit([endian EXCEPT !.writer = writerSetIsLe(@, isLe)])

\* instance.alias(...): the primitive the alias holds now is called
EndianReaderCall ==
  /\ endian.made
  /\ \E alias \in ReaderAliases, n \in 1..MaxEndianBytes :
       ECommit([endian EXCEPT !.call =
                  [on |-> "reader", alias |-> alias, bytes |-> n,
                   result |-> apply(endian.reader[alias], n)]])

EndianWriterCall ==
  /\ endian.made
  /\ \E alias \in WriterAliases, n \in 1..MaxEndianBytes :
       ECommit([endian EXCEPT !.call =
                  [on |-> "writer", alias |-> alias, bytes |-> n,
                   result |-> apply(endian.writer[alias], n)]])

EndianNext ==
  \/ EndianNew
  \/ EndianReaderSetIsLe
  \/ EndianWriterSetIsLe
  \/ EndianReaderCall
  \/ EndianWriterCall

EndianSpec == Init /\ [][EndianNext]_vars

\* the direction an alias must have on an instance whose isLe is b
Expected(alias, b, n) ==
  IF (alias \in EndianAliases) = b THEN Reverse(Iota(n)) ELSE Iota(n)

\* C15: on every instance an '...Endian' alias holds the backward primitive
\* when isLe is true and the forward one when it is false, a
\* '...BackwardsEndian' alias the opposite, and a call made through an alias
\* gives the bytes in the order of the setting in force.
C15_AliasesFollowIsLe ==
  endian.made =>
    /\ \A a \in ReaderAliases :
         apply(endian.reader[a], MaxEndianBytes)
           = Expected(a, endian.reader.isLe, MaxEndianBytes)
    /\ \A a \in WriterAliases :
         apply(endian.writer[a], MaxEndianBytes)
           = Expected(a, endian.writer.isLe, MaxEndianBytes)
    /\ endian.call.on = "reader" =>
         endian.call.result
           = Expected(endian.call.alias, endian.reader.isLe, endian.call.bytes)
    /\ endian.call.on = "writer" =>
         endian.call.result
           = Expected(endian.call.alias, endian.writer.isLe, endian.call.bytes)

\* ---- the integer encodings (writeTwosComplement, readTwosComplement) ----
\* The bitwise operators of JavaScript work on 32-bit words.  A word is the
\* sequence of its 32 bits, lowest first.
Window == 2   \* values taken on each side of every anchor

Bits32 == 1..32

\* ToInt32 / ToUint32 of an integer: its 32 low bits in two's complement
RECURSIVE bitsOf(_, _)
bitsOf(v, k) == IF k = 0 THEN <<>> ELSE <<v % 2>> \o bitsOf(v \div 2, k - 1)

Word(v) == bitsOf(v, 32)

\* the number whose bits are the lowest k bits of a word
RECURSIVE lowBits(_, _)
lowBits(w, k) == IF k = 0 THEN 0 ELSE w[1] + 2 * lowBits(Tail(w), k - 1)

\* a word as the signed number the operators | & << return
Int32(w) ==
  IF w[32] = 1 THEN (lowBits(w, 31) - 2147483647) - 1 ELSE lowBits(w, 31)

and(a, b) == [i \in Bits32 |-> IF a[i] = 1 /\ b[i] = 1 THEN 1 ELSE 0]

or(a, b) == [i \in Bits32 |-> IF a[i] = 1 \/ b[i] = 1 THEN 1 ELSE 0]

\* a << n and a >>> n: only the 5 low bits of the count are used
shl(a, n) == [i \in Bits32 |-> IF i - (n % 32) >= 1 THEN a[i - (n % 32)] ELSE 0]

shr(a, n) == [i \in Bits32 |-> IF i + (n % 32) <= 32 THEN a[i + (n % 32)] ELSE 0]

\* constants.allOnes
allOnes == [i \in Bits32 |-> 1]

Zero32 == [i \in Bits32 |-> 0]

\* writeUnsignedInt(value, bytes): the array `out`, lowest byte first
RECURSIVE outBytes(_, _, _, _)
outBytes(value, mask, i, bits) ==
  IF i < bits
    THEN <<lowBits(shr(and(mask, value), i), 8)>>
           \o outBytes(value, shl(mask, 8), i + 8, bits)
    ELSE <<>>

\* writeUnsignedInt(value, bytes) ends with writeArrayBackwardsEndian(out)
writeUnsignedInt(value, bytes, isLe) ==
  LET out == outBytes(value, Word(255), 0, bytes * 8)
  IN  IF isLe THEN out ELSE Reverse(out)

\* writeTwosComplement(value, bytes)
writeTwosComplement(value, bytes, isLe) ==
  writeUnsignedInt(
    IF value < 0 THEN and(shr(allOnes, (4 - bytes) * 8), Word(value))
    ELSE Word(value),
    bytes, isLe)

\* the loop of readUnsignedInt over read.reverse()
RECURSIVE orBytes(_, _, _)
orBytes(reversed, index, output) ==
  IF reversed = <<>> THEN output
  ELSE orBytes(Tail(reversed), index + 1,
               or(output, shl(Word(Head(reversed)), index * 8)))

\* readUnsignedInt(bytes) on the stored bytes: readEndian(bytes), then the
\* loop; the result is the word output >>> 0
readUnsignedInt(stored, isLe) ==
  LET read == IF isLe THEN Reverse(stored) ELSE stored
  IN  orBytes(Reverse(read), 0, Zero32)

\* readTwosComplement(bytes)
readTwosComplement(stored, bytes, isLe) ==
  LET read == readUnsignedInt(stored, isLe)
      bits == bytes * 8
  IN  IF and(read, shl(Word(1), bits - 1)) # Zero32
        THEN Int32(or(shl(allOnes, bits), read))
        ELSE lowBits(read, 31)

Widths == 1..4

\* the least and the greatest value of a two's complement of n bytes
Lo(n) == CASE n = 1 -> 0 - 128 [] n = 2 -> 0 - 32768 [] n = 3 -> 0 - 8388608
           [] OTHER -> (0 - 2147483647) - 1

Hi(n) == 0 - (Lo(n) + 1)

Anchors == {0, 128, 0 - 128, 25565, 0 - 25565, 32768, 0 - 32768,
            1113983, 0 - 1113983, 8388608, 0 - 8388608}

\* the values tried for a width: around the anchors and at both ends
Values(n) ==
  {v \in {a + d : a \in Anchors, d \in (0 - Window)..Window} :
     Lo(n) <= v /\ v <= Hi(n)}
  \cup {Lo(n) + d : d \in 0..Window} \cup {Hi(n) - d : d \in 0..Window}

TCommit(T) ==
  twos' = T /\ UNCHANGED <<readerVars, chunkVars, fixed, readable, endian, twin, decode, transformer, overlap, growable, floats, shared, emitter>>

\* writableBuffer.writeTwosComplement(value, bytes)
TwosWrite ==
  /\ twos.pc = "idle"
  /\ \E bytes \in Widths, isLe \in BOOLEAN :
       \E value \in Values(bytes) :
         TCommit([pc |-> "written", value |-> value, bytes |-> bytes,
                  isLe |-> isLe,
                  stored |-> writeTwosComplement(value, bytes, isLe),
                  result |-> 0])

\* readableBuffer.readTwosComplement(bytes) on the bytes written
TwosRead ==
  /\ twos.pc = "written"
  /\ TCommit([twos EXCEPT !.pc = "read",
                !.result = readTwosComplement(twos.stored, twos.bytes, twos.isLe)])

TwosNext ==
  \/ TwosWrite
  \/ TwosRead

TwosSpec == Init /\ [][TwosNext]_vars

\* C16: the bytes writeTwosComplement(v, n) produces are decoded by
\* readTwosComplement(n), with the same endianness, to v.
C16_TwosComplementRoundTrip ==
  twos.pc = "read" => twos.result = twos.value

\* ---- LockQueue with close ----
\* close(error, acquireError): the lock afterwards and the waiters whose
\* promise is rejected with error
close(l) ==
  [lock |-> [l EXCEPT !.closed = TRUE, !.queue = <<>>], aborted |-> l.queue]

\* the promises of the aborted waiters are rejected with error
RECURSIVE abortAll(_, _)
abortAll(S, pids) ==
  IF pids = <<>> THEN S
  ELSE abortAll([S EXCEPT !.ops[Head(pids)].pc = "done",
                          !.ops[Head(pids)].status = "rejected",
                          !.ops[Head(pids)].error = "error"], Tail(pids))

LockClose ==
  /\ ~lock.closed
  /\ LET c == close(lock)
     IN  Commit(abortAll([St EXCEPT !.lock = c.lock], c.aborted))

ClosingNext ==
  \/ LockAcquire
  \/ LockGranted
  \/ LockRelease
  \/ LockClose

ClosingSpec == Init /\ [][ClosingNext]_vars

\* the callers whose acquire promise has been resolved
Granted(o) ==
  {p \in 1..Len(o) : o[p].pc \in {"acquire", "holding"} \/ o[p].status = "resolved"}

CloseStep ==
  /\ (~lock.closed /\ lock'.closed) =>
       /\ lock'.queue = <<>>
       /\ \A i \in 1..Len(lock.queue) :
            /\ ops'[lock.queue[i]].status = "rejected"
            /\ ops'[lock.queue[i]].error = "error"
  /\ lock.closed =>
       /\ lock'.closed
       /\ lock'.queue = <<>>
       /\ Granted(ops') = Granted(ops)
       /\ \A p \in 1..Len(ops') :
            p > Len(ops) => /\ ops'[p].status = "rejected"
                            /\ ops'[p].error = "acquireError"

\* C17: close rejects with error every acquirer in the queue and empties it;
\* from then on the queue stays closed and empty, an acquire is rejected
\* with acquireError, and no acquire promise is resolved, by release or
\* otherwise.
C17_CloseIsFinal == [][CloseStep]_vars

\* after close an acquire has been rejected with acquireError, and a caller
\* granted the lock before close has released it
C17_Witness ==
  /\ lock.closed
  /\ \E p \in Pids : \E q \in Pids :
       /\ q < p
       /\ ops[p].status = "rejected" /\ ops[p].error = "acquireError"
       /\ ops[q].status = "resolved"

\* ---- readUint8ArrayBackwards / readArray / readArrayBackwards ----
\* Two readers are given the same chunks, the same source events and the same
\* scheduling.  Where the first is asked readUint8Array(n) or readArray(n),
\* the second is asked the backwards method.  The heap holds the bytes that
\* the storage of every delivered chunk holds now.
MaxTwinOps == 2        \* calls made on each reader
MaxTwinChunks == 1     \* chunks delivered
MaxTwinChunkLen == 3   \* bytes of the longest chunk; the others are one shorter
MaxTwinRead == 2       \* largest n of a read

BackwardKinds == {"readUint8ArrayBackwards", "readArrayBackwards"}

\* the method a backwards method awaits, and whose result it reverses
forward(kind) ==
  CASE kind = "readUint8ArrayBackwards" -> "readUint8Array"
    [] kind = "readArrayBackwards" -> "readArray"
    [] OTHER -> kind

\* `await this.readUint8Array(bytes)` inside a backwards method: when the
\* inner read has resolved, the method continues one job later
awaitInner(S) ==
  [S EXCEPT !.ops = [p \in 1..Len(S.ops) |->
     IF /\ S.ops[p].kind \in BackwardKinds
        /\ S.ops[p].pc = "done" /\ S.ops[p].status = "resolved"
       THEN [S.ops[p] EXCEPT !.pc = "outer", !.status = "pending"]
       ELSE S.ops[p]]]

\* the ops that have just come to wait for their continuation
RECURSIVE newOuter(_, _, _)
newOuter(before, after, p) ==
  IF p > Len(after.ops) THEN <<>>
  ELSE (IF after.ops[p].pc = "outer"
           /\ (p > Len(before.ops) \/ before.ops[p].pc # "outer")
          THEN <<p>> ELSE <<>>) \o newOuter(before, after, p + 1)

\* where the bytes of the array a read resolves with are stored:
\* joinUint8Arrays returns a new Uint8Array
allocation_view(S, pid) ==
  IF Len(S.ops[pid].result) > 0 THEN "view" ELSE "new"

allocation(S, pid) == "new"

\* the chunk that holds the k-th byte of the stream, and the byte's place in it
RECURSIVE chunkOf(_, _, _)
chunkOf(heap, k, c) ==
  IF k <= Len(heap[c]) THEN <<c, k>> ELSE chunkOf(heap, k - Len(heap[c]), c + 1)

\* bytes are stored over the places of the stream that `places` names
RECURSIVE store(_, _, _)
store(heap, places, bytes) ==
  IF places = <<>> THEN heap
  ELSE LET at == chunkOf(heap, Head(places), 1)
       IN  store([heap EXCEPT ![at[1]][at[2]] = Head(bytes)],
                 Tail(places), Tail(bytes))

\* an array is overwritten: the bytes go where the array is stored
overwrite(T, pid, places, bytes) ==
  IF allocation(T.bwd, pid) = "new" THEN T.heap
  ELSE store(T.heap, places, bytes)

\* both readers after the same step, the second with its backwards methods
twinStep(T, F, B) ==
  LET W == awaitInner(B)
  IN  [T EXCEPT !.fwd = F, !.bwd = W,
                !.outer = @ \o newOuter(T.bwd, W, 1)]

\* readUint8ArrayBackwards as it would be without .reverse()
backwards_noReverse(T, pid) ==
  [T EXCEPT !.bwd.ops[pid].pc = "returned",
            !.bwd.ops[pid].status = "resolved"]

\* (await this.readUint8Array(bytes)).reverse(): the array is reversed in
\* place and returned
backwards(T, pid) ==
  LET read == T.bwd.ops[pid].result
  IN  [T EXCEPT !.bwd.ops[pid].pc = "returned",
                !.bwd.ops[pid].status = "resolved",
                !.bwd.ops[pid].result = Reverse(read),
                !.heap = overwrite(T, pid, read, Reverse(read))]

TwinCommit(T) ==
  twin' = T /\ UNCHANGED <<readerVars, chunkVars, fixed, readable, endian, twos, decode, transformer, overlap, growable, floats, shared, emitter>>

\* the consumer awaits each call before it makes the next
TwinIdle ==
  \A p \in 1..Len(twin.bwd.ops) : twin.bwd.ops[p].status # "pending"

\* the same forward call on both readers
TwinCall ==
  /\ Len(twin.fwd.ops) < MaxTwinOps
  /\ TwinIdle
  /\ \E kind \in {"shift", "readUint8Array"} :
       \E bytes \in 1..(IF kind = "shift" THEN 1 ELSE MaxTwinRead) :
         TwinCommit(twinStep(twin, call(twin.fwd, kind, bytes),
                                   call(twin.bwd, kind, bytes)))

\* a forward read on the first reader, the backwards one on the second
TwinCallBackwards ==
  /\ Len(twin.fwd.ops) < MaxTwinOps
  /\ TwinIdle
  /\ \E kind \in BackwardKinds, bytes \in 1..MaxTwinRead :
       TwinCommit(twinStep(twin, call(twin.fwd, forward(kind), bytes),
                                 call(twin.bwd, kind, bytes)))

TwinData ==
  /\ ~twin.fwd.destroyed
  /\ Len(twin.fwd.enqueued) < MaxTwinChunks
  /\ \E len \in {MaxTwinChunkLen - 1, MaxTwinChunkLen} :
       LET chunk == [i \in 1..len |-> Len(Flatten(twin.fwd.enqueued)) + i]
       IN  TwinCommit([twinStep(twin, onData(twin.fwd, chunk),
                                      onData(twin.bwd, chunk))
                         EXCEPT !.heap = Append(@, chunk)])

TwinClose ==
  /\ ~twin.fwd.destroyed
  /\ TwinCommit(twinStep(twin, onClose(twin.fwd), onClose(twin.bwd)))

\* the next job of the microtask queue, on both readers
TwinRunMicrotask ==
  /\ twin.fwd.microtasks # <<>>
  /\ LET job == Head(twin.fwd.microtasks)
         F == [twin.fwd EXCEPT !.microtasks = Tail(@)]
         B == [twin.bwd EXCEPT !.microtasks = Tail(@)]
     IN  IF job[2] > 0
           THEN TwinCommit(twinStep(twin,
                  [F EXCEPT !.microtasks = Append(@, <<job[1], job[2] - 1>>)],
                  [B EXCEPT !.microtasks = Append(@, <<job[1], job[2] - 1>>)]))
           ELSE TwinCommit(twinStep(twin, resume(F, job[1]), resume(B, job[1])))

\* the continuation of a backwards method
TwinReverse ==
  /\ twin.outer # <<>>
  /\ TwinCommit(backwards([twin EXCEPT !.outer = Tail(@)], Head(twin.outer)))

\* the consumer overwrites with zeros an array a read of the second reader
\* has returned
TwinScribble ==
  \E pid \in 1..Len(twin.bwd.ops) :
    /\ twin.bwd.ops[pid].status = "resolved"
    /\ twin.bwd.ops[pid].kind # "shift"
    /\ pid \notin twin.scribbled
    /\ LET returned == twin.bwd.ops[pid].result
           places == twin.fwd.ops[pid].result
       IN  TwinCommit([twin EXCEPT
             !.scribbled = @ \cup {pid},
             !.heap = overwrite(twin, pid, places, Zeros(Len(returned)))])

TwinNext ==
  \/ TwinCall
  \/ TwinCallBackwards
  \/ TwinData
  \/ TwinClose
  \/ TwinRunMicrotask
  \/ TwinReverse
  \/ TwinScribble

TwinSpec == Init /\ [][TwinNext]_vars

\* the backwards calls that have settled
SettledBackwards ==
  {p \in 1..Len(twin.bwd.ops) :
     /\ twin.bwd.ops[p].kind \in BackwardKinds
     /\ twin.bwd.ops[p].status # "pending"}

DecodeBytes == {0, 67, 127, 128, 254, 255}

DecodeWidths == {3}

xor(a, b) == [i \in Bits32 |-> IF a[i] # b[i] THEN 1 ELSE 0]

\* readSignedInteger as it would be if the sign were two's complement
readSignedInteger_twosComplement(read, bytes) ==
  IF and(read, shl(Word(1), bytes * 8 - 1)) # Zero32
    THEN Int32(or(shl(allOnes, bytes * 8), read))
    ELSE Int32(read)

\* readSignedInteger(bytes) on the word readUnsignedInt(bytes) returned:
\* the top bit of the width is the sign, the other bits are the magnitude
readSignedInteger(read, bytes) ==
  LET bits == bytes * 8
      sign == and(read, shl(Word(1), bits - 1))
  IN  IF sign = Zero32 THEN Int32(xor(read, sign))
      ELSE 0 - Int32(xor(read, sign))

DCommit(D) ==
  decode' = D
  /\ UNCHANGED <<readerVars, chunkVars, fixed, readable, endian, twos, twin, transformer, overlap, growable, floats, shared, emitter>>

\* new readableStream(stream), and the endianness chosen for it
DecodeNew ==
  /\ decode.pc = "new"
  /\ \E isLe \in BOOLEAN, bytes \in DecodeWidths :
       \E chunk \in [1..bytes -> DecodeBytes] :
         DCommit([decode EXCEPT !.pc = "ready", !.isLe = isLe,
                                !.chunk = chunk, !.bytes = bytes])

\* the source delivers the chunk
DecodeData ==
  /\ decode.pc \in {"ready", "reading"}
  /\ decode.stream.enqueued = <<>>
  /\ DCommit([decode EXCEPT !.stream = onData(@, decode.chunk)])

\* readSignedInteger(bytes) calls readUnsignedInt(bytes), which calls
\* readEndian(bytes): readUint8Array(bytes) of the stream
DecodeCall ==
  /\ decode.pc = "ready"
  /\ DCommit([decode EXCEPT !.pc = "reading",
                            !.stream = call(@, "readUint8Array", decode.bytes)])

DecodeRunMicrotask ==
  /\ decode.stream.microtasks # <<>>
  /\ LET job == Head(decode.stream.microtasks)
         S == [decode.stream EXCEPT !.microtasks = Tail(@)]
     IN  IF job[2] > 0
           THEN DCommit([decode EXCEPT !.stream =
                  [S EXCEPT !.microtasks = Append(@, <<job[1], job[2] - 1>>)]])
           ELSE DCommit([decode EXCEPT !.stream = resume(S, job[1])])

\* the continuations of readUnsignedInt and readSignedInteger
DecodeReturn ==
  /\ decode.pc = "reading"
  /\ decode.stream.ops[1].status = "resolved"
  /\ LET read == decode.stream.ops[1].result
     IN  DCommit([decode EXCEPT
           !.pc = "done",
           !.read = read,
           !.result = readSignedInteger(readUnsignedInt(read, decode.isLe),
                                        decode.bytes)])

DecodeNext ==
  \/ DecodeNew
  \/ DecodeData
  \/ DecodeCall
  \/ DecodeRunMicrotask
  \/ DecodeReturn

DecodeSpec == Init /\ [][DecodeNext]_vars

\* the scenario: the single chunk FF FE 43, read by a big-endian reader
Scenario ==
  /\ decode.pc = "done"
  /\ decode.chunk = <<255, 254, 67>>
  /\ ~decode.isLe

\* C20: with the single chunk FF FE 43 enqueued, reading 3 bytes returns
\* FF FE 43 and readSignedInteger(3), big endian, yields 1113983.
C20_ScenarioYields1113983 ==
  Scenario => decode.read = <<255, 254, 67>> /\ decode.result = 1113983

\* C20 as amended: with the single chunk FF FE 43 enqueued, reading 3 bytes
\* returns FF FE 43 and readSignedInteger(3), big endian, yields -8388163
\* (sign bit set, magnitude 7F FE 43).
C20_ScenarioYieldsSignAndMagnitude ==
  Scenario => decode.read = <<255, 254, 67>> /\ decode.result = 0 - 8388163

\* the scenario has run to its end, the chunk consumed
C20_Witness ==
  /\ Scenario
  /\ decode.stream.chunkQueue = <<>>
  /\ decode.stream.enqueued = <<<<255, 254, 67>>>>

\* ---- ChunkTransformerEmitter ----
MaxTransformerSize == 3    \* largest chunk size
MaxTransformerWrite == 3   \* longest array written in one call
MaxTransformerCalls == 3   \* calls made

\* _flush(): the filled part of the buffer is handed to handleChunk, which
\* emits it as a "chunk" event; the buffer is replaced by a new one
transformerFlush(T, during) ==
  [T EXCEPT !.emitted = Append(@, [chunk |-> SubSeq(T.buffer, 1, T.used),
                                   size |-> Len(T.buffer),
                                   during |-> during]),
            !.buffer = Zeros(Len(T.buffer)),
            !.used = 0]

\* the loop of write(data): a full buffer is flushed first, then as much of
\* data as fits is stored
RECURSIVE transformerLoop(_, _, _)
transformerLoop(T, data, during) ==
  IF Len(data) > 0
    THEN LET F == IF T.used >= Len(T.buffer) THEN transformerFlush(T, during)
                  ELSE T
             bytesToWrite == Min(Len(data), Len(F.buffer) - F.used)
         IN  transformerLoop(
               [F EXCEPT !.buffer = set(@, SubSeq(data, 1, bytesToWrite), F.used),
                         !.used = @ + bytesToWrite],
               SubSeq(data, bytesToWrite + 1, Len(data)), during)
    ELSE T

transformerWrite(T, data) == transformerLoop(T, data, "write")

\* push(byte)
transformerPush(T, byte) ==
  LET F == IF T.used >= Len(T.buffer) THEN transformerFlush(T, "push") ELSE T
  IN  [F EXCEPT !.buffer[F.used + 1] = byte, !.used = @ + 1]

\* resize(chunkSize): a new buffer, into which the old data are written
transformerResize(T, size) ==
  transformerLoop([T EXCEPT !.buffer = Zeros(size), !.used = 0],
                  SubSeq(T.buffer, 1, T.used), "resize")

XCommit(T) ==
  transformer' = [T EXCEPT !.ncalls = @ + 1]
  /\ UNCHANGED <<readerVars, chunkVars, fixed, readable, endian, twos, twin, decode, overlap, growable, floats, shared, emitter>>

\* new ChunkTransformerEmitter(chunkSize)
TransformerNew ==
  /\ ~transformer.made
  /\ \E size \in 1..MaxTransformerSize :
       transformer' = [transformer EXCEPT !.made = TRUE, !.buffer = Zeros(size)]
  /\ UNCHANGED <<readerVars, chunkVars, fixed, readable, endian, twos, twin, decode, overlap, growable, floats, shared, emitter>>

TransformerCall == transformer.made /\ transformer.ncalls < MaxTransformerCalls

\* the bytes written are numbered in write order
TransformerBytes(len) == [i \in 1..len |-> transformer.written + i]

TransformerWrite ==
  /\ TransformerCall
  /\ \E len \in 0..MaxTransformerWrite :
       XCommit([transformerWrite(transformer, TransformerBytes(len))
                  EXCEPT !.written = @ + len])

TransformerPush ==
  /\ TransformerCall
  /\ XCommit([transformerPush(transformer, transformer.written + 1)
                EXCEPT !.written = @ + 1])

TransformerFlush ==
  /\ TransformerCall
  /\ XCommit(transformerFlush(transformer, "flush"))

TransformerResize ==
  /\ TransformerCall
  /\ \E size \in 1..MaxTransformerSize :
       XCommit(transformerResize(transformer, size))

TransformerNext ==
  \/ TransformerNew
  \/ TransformerWrite
  \/ TransformerPush
  \/ TransformerFlush
  \/ TransformerResize

TransformerSpec == Init /\ [][TransformerNext]_vars

\* C21: a chunk is emitted during the call that stores the last byte of the
\* buffer, so that no call returns with the buffer full, and every chunk
\* emitted otherwise than by flush() has the length of the chunk size.
C21_ChunkEmittedWhenFilled ==
  /\ transformer.made => transformer.used < Len(transformer.buffer)
  /\ \A i \in 1..Len(transformer.emitted) :
       transformer.emitted[i].during # "flush" =>
         Len(transformer.emitted[i].chunk) = transformer.emitted[i].size

\* ---- the cursor of the chunk queue ----
\* the bytes the calls have taken out of the queue so far
RECURSIVE Taken(_)
Taken(p) ==
  IF p = 0 THEN 0
  ELSE Taken(p - 1)
       + (IF ops[p].kind = "shift"
            THEN (IF ops[p].status = "resolved" THEN 1 ELSE 0)
            ELSE Len(ops[p].chunks))

\* the bytes of the queue that lie after the cursor
Buffered == IF chunkQueue = <<>> THEN 0 ELSE Len(Flatten(chunkQueue)) - chunkIdx

\* C22: after every step the cursor lies inside the head chunk, a head chunk
\* read to its last byte is gone from the queue with the cursor back at 0, and
\* every byte that left the queue was handed to a call (no unread chunk is
\* evicted).
C22_CursorInsideHeadChunk ==
  /\ chunkQueue = <<>> => chunkIdx = 0
  /\ chunkQueue # <<>> => 0 <= chunkIdx /\ chunkIdx < Len(chunkQueue[1])
  /\ Len(Stream) = Taken(Len(ops)) + Buffered

\* ---- the listeners of a wait ----
\* the listeners that #waitChunk has registered and that are still registered
WaitListeners ==
  {<<name, i>> \in {"data", "close"} \X (1..(Len(events.data) + Len(events.close))) :
     i <= Len(events[name])}

Waiting == {p \in Pids : ops[p].pc = "waiting"}

\* C23: every registered listener of a wait belongs to a read that is still
\* suspended in that wait, so that there are at most two of them for each
\* suspended read.
C23_NoListenerOutlivesItsWait ==
  /\ \A l \in WaitListeners :
       LET cb == events[l[1]][l[2]].callback
       IN  ops[cb.pid].pc = "waiting" /\ ops[cb.pid].wait = cb.wait
  /\ Cardinality(WaitListeners) <= 2 * Cardinality(Waiting)

\* ---- reads rejected at the end of the stream ----
\* the reads that were rejected because the stream ended
EndedReads ==
  {p \in Pids : /\ ops[p].kind = "read"
                /\ ops[p].status = "rejected"
                /\ ops[p].error = "StreamEnded"}

\* C24: a read rejected with StreamEnded has taken nothing out of the chunk
\* queue: the bytes that were buffered when it was called are still there for
\* later reads.
C24_RejectedReadTakesNothing ==
  \A p \in EndedReads : ops[p].chunks = <<>>

\* ---- chunkingWritableStream, calls made without awaiting the earlier ones ----
MaxOverlapSize == 2    \* largest chunk size
MaxOverlapCalls == 3   \* calls made on the writer
MaxOverlapLen == 2     \* bytes of one writeUint8Array call

\* the stream as call i sees it
focus(O, i) ==
  [buffer |-> O.buffer, used |-> O.used, chunkSize |-> O.chunkSize,
   sink |-> O.sink, written |-> O.written, writer |-> O.writers[i]]

\* the stream after call i has run up to its next await or to its end; a
\* call that has come to await #flushFull waits for the sink's callback
afterRun(O, i, W) ==
  [O EXCEPT !.buffer = W.buffer, !.used = W.used, !.sink = W.sink,
            !.written = W.written, !.writers[i] = W.writer,
            !.pending = IF W.writer.pc = "flushFull" THEN Append(@, i) ELSE @]

\* a call is made: it runs at once up to its first await
overlapCall(O, kind, value) ==
  LET i == Len(O.writers) + 1
      C == [O EXCEPT !.writers = Append(@, [kind |-> "none", pc |-> "new",
                                            value |-> <<>>, index |-> 0,
                                            bytesLeft |-> 0, ncalls |-> 0])]
      W == chunkCall(focus(C, i), kind, value)
  IN  afterRun(C, i, IF kind = "push" THEN push(W) ELSE writeLoop(W))

OCommit(O) ==
  overlap' = O
  /\ UNCHANGED <<readerVars, chunkVars, fixed, readable, endian, twos, twin, decode, transformer, growable, floats, shared, emitter>>

\* new chunkingWritableStream(stream, chunkSize)
OverlapNew ==
  /\ ~overlap.made
  /\ \E size \in 1..MaxOverlapSize :
       OCommit([overlap EXCEPT !.made = TRUE, !.chunkSize = size,
                               !.buffer = Zeros(size)])

OverlapReady == overlap.made /\ Len(overlap.writers) < MaxOverlapCalls

OverlapBytes(len) == [i \in 1..len |-> overlap.written + i]

OverlapPush ==
  /\ OverlapReady
  /\ OCommit(overlapCall(overlap, "push", OverlapBytes(1)))

OverlapWrite ==
  /\ OverlapReady
  /\ \E len \in 1..MaxOverlapLen :
       OCommit(overlapCall(overlap, "writeUint8Array", OverlapBytes(len)))

\* the sink acknowledges its oldest write: the callback of #flushFull runs;
\* the continuations of the promises resolved earlier have run before
OverlapWriteCallback ==
  /\ overlap.pending # <<>>
  /\ \A i \in 1..Len(overlap.writers) : overlap.writers[i].pc # "resume"
  /\ LET i == Head(overlap.pending)
     IN  OCommit([afterRun(overlap, i, writeCallback(focus(overlap, i)))
                    EXCEPT !.pending = Tail(overlap.pending)])

\* the call goes on after its await
OverlapResume ==
  \E i \in 1..Len(overlap.writers) :
    /\ overlap.writers[i].pc = "resume"
    /\ OCommit(afterRun(overlap, i, chunkResume(focus(overlap, i))))

OverlapNext ==
  \/ OverlapNew
  \/ OverlapPush
  \/ OverlapWrite
  \/ OverlapWriteCallback
  \/ OverlapResume

OverlapSpec == Init /\ [][OverlapNext]_vars

\* how many times k occurs in a sequence
RECURSIVE Count(_, _)
Count(k, seq) ==
  IF seq = <<>> THEN 0
  ELSE (IF Head(seq) = k THEN 1 ELSE 0) + Count(k, Tail(seq))

OverlapDone ==
  \A i \in 1..Len(overlap.writers) : overlap.writers[i].pc = "idle"

\* C25: with calls made before the earlier ones have resolved, no byte is
\* forwarded to the sink twice, and when every call has resolved each byte
\* written is, exactly once, in the chunks forwarded or in the used part of
\* the buffer (an acknowledgement erases no byte stored after an earlier one).
C25_OverlappingWritesLoseNothing ==
  /\ \A k \in 1..overlap.written : Count(k, Flatten(overlap.sink)) <= 1
  /\ OverlapDone =>
       \A k \in 1..overlap.written :
         Count(k, Flatten(overlap.sink)
                    \o SubSeq(overlap.buffer, 1, overlap.used)) = 1

\* ---- writableBuffer (growable) ----
MaxGrowSize == 3    \* largest chunk size
MaxGrowWrite == 3   \* bytes of one writeUint8Array / writeArray call
MaxGrowCalls == 4   \* calls made on the buffer

\* a full chunk is followed by a new one, put at the front of #buffers
growChunk(G) ==
  IF G.used = G.chunkSize
    THEN [G EXCEPT !.used = 0, !.buffers = <<Zeros(G.chunkSize)>> \o @]
    ELSE G

\* push(value)
growPush(G, value) ==
  LET N == growChunk(G)
  IN  [N EXCEPT !.buffers[1][N.used + 1] = value, !.used = @ + 1]

\* the while loop of writeUint8Array(value) and of writeArray(value)
RECURSIVE growWrite(_, _)
growWrite(G, value) ==
  IF Len(value) > 0
    THEN LET N == growChunk(G)
             bytesToWrite == Min(Len(value), N.chunkSize - N.used)
         IN  growWrite([N EXCEPT
                          !.buffers[1] = set(@, SubSeq(value, 1, bytesToWrite), N.used),
                          !.used = @ + bytesToWrite],
                       SubSeq(value, bytesToWrite + 1, Len(value)))
    ELSE G

\* get length
growLength(G) == G.chunkSize * Len(G.buffers) - (G.chunkSize - G.used)

\* get buffer: the chunks after the first, then the used part of the first
growBuffer(G) ==
  joinUint8Arrays(Flatten(Tail(G.buffers)) \o subarray(G.buffers[1], 0, G.used),
                  growLength(G)).value

GCommit(G) ==
  growable' = [G EXCEPT !.ncalls = @ + 1]
  /\ UNCHANGED <<readerVars, chunkVars, fixed, readable, endian, twos, twin, decode, transformer, overlap, floats, shared, emitter>>

\* new writableBuffer(chunkSize)
GrowNew ==
  /\ ~growable.made
  /\ \E size \in 1..MaxGrowSize :
       growable' = [growable EXCEPT !.made = TRUE, !.chunkSize = size,
                                    !.buffers = <<Zeros(size)>>]
  /\ UNCHANGED <<readerVars, chunkVars, fixed, readable, endian, twos, twin, decode, transformer, overlap, floats, shared, emitter>>

GrowReady == growable.made /\ growable.ncalls < MaxGrowCalls

GrowPush ==
  /\ GrowReady
  /\ GCommit([growPush(growable, growable.written + 1) EXCEPT !.written = @ + 1])

GrowWrite ==
  /\ GrowReady
  /\ \E len \in 0..MaxGrowWrite :
       GCommit([growWrite(growable, [i \in 1..len |-> growable.written + i])
                  EXCEPT !.written = @ + len])

GrowNext ==
  \/ GrowNew
  \/ GrowPush
  \/ GrowWrite

GrowSpec == Init /\ [][GrowNext]_vars

\* C26: the buffer getter returns the bytes written, in write order, and
\* length is their number.
C26_BufferIsWhatWasWritten ==
  growable.made =>
    /\ growBuffer(growable) = Iota(growable.written)
    /\ growLength(growable) = growable.written

\* ---- writeFloat / writeDouble, readFloat / readDouble ----
\* A number is the bytes it has in the Float32Array / Float64Array of the
\* module: the bytes of number v are 10 * v + 1, 10 * v + 2, ...
MaxFloatValues == 3   \* numbers written
MaxFieldLen == 2      \* bytes of the field written after the number

\* uint8Float32ArrayView / uint8Float64ArrayView after float..Array[0] = value
viewOf(kind, v) == [i \in 1..(IF kind = "float" THEN 4 ELSE 8) |-> 10 * v + i]

\* writeFloat(value) / writeDouble(value): the bytes handed to
\* writeUint8ArrayEndian or writeUint8ArrayBackwardsEndian
writeFloating(F, view) ==
  LET flip == IF F.isBigEndian THEN F.isLe ELSE ~F.isLe
  IN  [F EXCEPT !.out = @ \o (IF flip THEN Reverse(view) ELSE view)]

\* the bytes that readFloat() and readDouble() ask of readEndian or
\* readBackwardsEndian
floatBytes(kind) == IF kind = "float" THEN 4 ELSE 4

\* readFloat() / readDouble()
readFloating(F, kind) ==
  LET bytes == floatBytes(kind)
      taken == SubSeq(F.out, F.index + 1, F.index + bytes)
      flip == IF F.isBigEndian THEN F.isLe ELSE ~F.isLe
  IN  [F EXCEPT !.index = @ + bytes,
                !.read = IF flip THEN Reverse(taken) ELSE taken]

FLCommit(F) ==
  floats' = F
  /\ UNCHANGED <<readerVars, chunkVars, fixed, readable, endian, twos, twin, decode, transformer, overlap, growable, shared, emitter>>

\* a writer and a reader of the same endianness, on a platform of either
\* byte order
FloatNew ==
  /\ floats.pc = "new"
  /\ \E big, le \in BOOLEAN :
       FLCommit([floats EXCEPT !.pc = "ready", !.isBigEndian = big, !.isLe = le])

\* writeFloat(value) or writeDouble(value)
FloatWrite ==
  /\ floats.pc = "ready"
  /\ \E kind \in {"float", "double"}, v \in 1..MaxFloatValues :
       FLCommit([writeFloating(floats, viewOf(kind, v))
                   EXCEPT !.pc = "written", !.kind = kind, !.view = viewOf(kind, v)])

\* the next field is written after the number
FloatWriteField ==
  /\ floats.pc = "written"
  /\ \E len \in 1..MaxFieldLen :
       LET field == [i \in 1..len |-> 200 + i]
       IN  FLCommit([floats EXCEPT !.pc = "fielded", !.field = field,
                                   !.out = @ \o field])

\* the reader is given the bytes written; readFloat() or readDouble()
FloatRead ==
  /\ floats.pc = "fielded"
  /\ FLCommit([readFloating(floats, floats.kind) EXCEPT !.pc = "read"])

FloatNext ==
  \/ FloatNew
  \/ FloatWrite
  \/ FloatWriteField
  \/ FloatRead

FloatSpec == Init /\ [][FloatNext]_vars

\* C27: writeFloat hands 4 bytes and writeDouble 8 bytes to the writer, and
\* readFloat takes 4 bytes and readDouble 8 bytes from the reader, so that
\* after the number is read the reader is at the first byte of the next field.
C27_FloatWidths ==
  /\ floats.pc \in {"written", "fielded", "read"} =>
       Len(floats.out) - Len(floats.field) = Len(floats.view)
  /\ floats.pc = "read" =>
       /\ floats.index = Len(floats.view)
       /\ SubSeq(floats.out, floats.index + 1, Len(floats.out)) = floats.field

\* ---- readableBuffers over the same storage ----
MaxSharedLen == 3     \* bytes of the Uint8Array
MaxSharedRead == 2    \* bytes of one read
MaxSharedCalls == 3   \* reads made

\* view.reverse() on the view subarray(from, to) of the storage: the bytes
\* of the storage are reversed in place
reverseInPlace(storage, from, to) ==
  [i \in 1..Len(storage) |->
     IF i > from /\ i <= to THEN storage[to - (i - from) + 1] ELSE storage[i]]

\* readUint8Array(bytes) of reader r: a view of the storage
sharedReadUint8Array(M, r, bytes) ==
  IF Len(M.storage) < M.readers[r].index + bytes
    THEN [M EXCEPT !.threw = TRUE]
    ELSE [M EXCEPT !.readers[r].index = @ + bytes]

\* readUint8ArrayBackwards(bytes): this.readUint8Array(bytes).reverse()
sharedReadUint8ArrayBackwards(M, r, bytes) ==
  LET R == sharedReadUint8Array(M, r, bytes)
      from == M.readers[r].index
  IN  IF R.threw THEN R
      ELSE [R EXCEPT !.storage = reverseInPlace(@, from, from + bytes)]

\* readArray(bytes): Array.prototype.slice.call copies the bytes
sharedReadArray(M, r, bytes) ==
  [M EXCEPT !.readers[r].index = @ + bytes,
            !.threw = Len(slice(M.storage, M.readers[r].index,
                                M.readers[r].index + bytes)) # bytes]

\* readUnsignedInt(bytes) and, through it, readTwosComplement(bytes):
\* readEndian(bytes), then the loop over read.reverse()
sharedReadUnsignedInt(M, r, bytes) ==
  LET from == M.readers[r].index
      R == IF M.readers[r].isLe THEN sharedReadUint8ArrayBackwards(M, r, bytes)
           ELSE sharedReadUint8Array(M, r, bytes)
  IN  IF R.threw THEN R
      ELSE [R EXCEPT !.storage = reverseInPlace(@, from, from + bytes)]

sharedRead(M, r, kind, bytes) ==
  CASE kind = "readUint8Array" -> sharedReadUint8Array(M, r, bytes)
    [] kind = "readUint8ArrayBackwards" -> sharedReadUint8ArrayBackwards(M, r, bytes)
    [] kind = "readArray" -> sharedReadArray(M, r, bytes)
    [] OTHER -> sharedReadUnsignedInt(M, r, bytes)

SCommit(M) ==
  shared' = M
  /\ UNCHANGED <<readerVars, chunkVars, fixed, readable, endian, twos, twin, decode, transformer, overlap, growable, floats, emitter>>

\* new readableBuffer(data), and new readableBuffer(first): the second
\* instance shares the storage of the first
SharedNew ==
  /\ ~shared.made
  /\ \E len \in 1..MaxSharedLen, le1, le2 \in BOOLEAN :
       SCommit([shared EXCEPT
         !.made = TRUE,
         !.storage = Iota(len),
         !.readers = <<[index |-> 0, isLe |-> le1], [index |-> 0, isLe |-> le2]>>])

SharedRead ==
  /\ shared.made
  /\ shared.ncalls < MaxSharedCalls
  /\ \E r \in 1..2, bytes \in 1..MaxSharedRead :
       \E kind \in {"readUint8Array", "readUint8ArrayBackwards", "readArray",
                    "readUnsignedInt", "readTwosComplement"} :
         SCommit(sharedRead([shared EXCEPT !.ncalls = @ + 1, !.threw = FALSE],
                            r, kind, bytes))

SharedNext ==
  \/ SharedNew
  \/ SharedRead

SharedSpec == Init /\ [][SharedNext]_vars

\* C28: no read changes the bytes of the Uint8Array under the readers.
C28_ReadsLeaveTheStorageAlone ==
  shared.made => shared.storage = Iota(Len(shared.storage))

\* ---- the offset of the in-memory readableBuffer ----
\* a call on the buffer leaves the offset within the buffer, and where it
\* was when the call throws
OffsetStep ==
  readable'.ncalls # readable.ncalls =>
    /\ 0 <= readable'.index /\ readable'.index <= Len(readable'.buffer)
    /\ readable'.call.threw => readable'.index = readable.index

\* C29: a read that throws RangeError leaves the offset unchanged, and after
\* every call, failing or not, 0 <= _offset <= buffer length (length >= 0).
C29_FailedReadKeepsOffset == [][OffsetStep]_vars

\* ---- SimpleEventEmitter with listeners that register and emit ----
\* A listener, when called, does nothing more, or registers a new listener
\* (once or on) for its event, or emits its event again (the first time it
\* is called).
MaxEmitterListeners == 2   \* listeners registered from outside
MaxEmitterEmits == 2       \* emits made from outside

EmitterNames == {"data", "close"}

\* once(name, callback) / on(name, callback) with a new callback
register(E, name, type, does) ==
  LET callback == [id |-> Len(E.listeners) + 1, does |-> does, name |-> name]
      R == [E EXCEPT !.listeners = Append(@, [type |-> type, name |-> name])]
  IN  IF type = "once" THEN once(R, name, callback) ELSE on(R, name, callback)

RECURSIVE emitterEmit(_, _)
RECURSIVE callAll(_, _, _)

\* emit(name, arg) as it would be if it purged the once listeners after the
\* calls
emitterEmit_purgeAfter(E, name) ==
  LET n == E.emits + 1
      listenerSnapshot == E.events[name]
      called == callAll([E EXCEPT
                  !.emits = n,
                  !.snapshots = Append(@, [i \in 1..Len(listenerSnapshot) |->
                                             listenerSnapshot[i].callback.id])],
                  listenerSnapshot, n)
  IN  [called EXCEPT !.events[name] = SelectSeq(@, IsOn)]

\* emit(name, arg): the listeners are copied, the once listeners are removed
\* from the registry, then the copies are called in order
emitterEmit(E, name) ==
  LET n == E.emits + 1
      listenerSnapshot == E.events[name]
  IN  callAll([E EXCEPT
                 !.emits = n,
                 !.snapshots = Append(@, [i \in 1..Len(listenerSnapshot) |->
                                            listenerSnapshot[i].callback.id]),
                 !.events[name] = SelectSeq(@, IsOn)],
              listenerSnapshot, n)

\* listener.callback(arg, name), during emit number n
callback(E, cb, n) ==
  LET L == [E EXCEPT !.log = Append(@, [emit |-> n, id |-> cb.id])]
  IN  CASE cb.does \in {"once", "on"} -> register(L, cb.name, cb.does, "nothing")
        [] cb.does = "emit" /\ cb.id \notin L.reemitted ->
             emitterEmit([L EXCEPT !.reemitted = @ \cup {cb.id}], cb.name)
        [] OTHER -> L

\* the loop over listenerSnapshot
callAll(E, snapshot, n) ==
  IF snapshot = <<>> THEN E
  ELSE callAll(callback(E, Head(snapshot).callback, n), Tail(snapshot), n)

MCommit(E) ==
  emitter' = E
  /\ UNCHANGED <<readerVars, chunkVars, fixed, readable, endian, twos, twin, decode, transformer, overlap, growable, floats, shared>>

EmitterOnce ==
  /\ emitter.registered < MaxEmitterListeners
  /\ \E name \in EmitterNames, does \in {"nothing", "once", "on", "emit"} :
       MCommit([register(emitter, name, "once", does) EXCEPT !.registered = @ + 1])

EmitterOn ==
  /\ emitter.registered < MaxEmitterListeners
  /\ \E name \in EmitterNames, does \in {"nothing", "once", "on", "emit"} :
       MCommit([register(emitter, name, "on", does) EXCEPT !.registered = @ + 1])

\* an emit from outside: it returns when every call it made has returned
EmitterEmit ==
  /\ Len(emitter.snapshots) - Cardinality(emitter.reemitted) < MaxEmitterEmits
  /\ \E name \in EmitterNames : MCommit(emitterEmit(emitter, name))

EmitterNext ==
  \/ EmitterOnce
  \/ EmitterOn
  \/ EmitterEmit

EmitterSpec == Init /\ [][EmitterNext]_vars

\* the listeners called by emit number n, in the order of the calls
RECURSIVE CalledBy(_, _)
CalledBy(n, log) ==
  IF log = <<>> THEN <<>>
  ELSE (IF Head(log).emit = n THEN <<Head(log).id>> ELSE <<>>)
       \o CalledBy(n, Tail(log))

\* the listeners in the registry of an event
Registry(name) ==
  {emitter.events[name][i].callback.id : i \in 1..Len(emitter.events[name])}

TimesCalled(id) ==
  Cardinality({i \in 1..Len(emitter.log) : emitter.log[i].id = id})

\* C30: every emit calls exactly the listeners that were registered for its
\* name when it was called, once each and in registration order; a once
\* listener is called at most once, also with an emit made by a listener, and
\* is out of the registry once called; an on listener stays in the registry;
\* a listener registered during an emit stays registered for the next one.
C30_EmitCallsItsSnapshot ==
  /\ \A n \in 1..emitter.emits :
       CalledBy(n, emitter.log) = emitter.snapshots[n]
  /\ \A id \in 1..Len(emitter.listeners) :
       LET l == emitter.listeners[id]
       IN  IF l.type = "once"
             THEN /\ TimesCalled(id) <= 1
                  /\ (id \in Registry(l.name)) = (TimesCalled(id) = 0)
             ELSE id \in Registry(l.name)

\* a listener's own emit has been answered by the on listeners alone, a once
\* listener registered before it having been called once, and a listener
\* registered during the first emit has been called by a later one
C30_Witness ==
  /\ emitter.reemitted # {}
  /\ \E id \in 1..Len(emitter.listeners) :
       emitter.listeners[id].type = "once" /\ TimesCalled(id) = 1
       /\ \E r \in emitter.reemitted : id < r
  /\ \E id \in 1..Len(emitter.listeners) :
       id > emitter.registered /\ TimesCalled(id) >= 1

====
